---- MODULE Spec2Model ----
(***************************************************************************)
(* Reading-session controller of vidENG (ImageBookReaderScreen) together   *)
(* with the audio service and the progress store it drives.                *)
(*                                                                         *)
(* The reader is a React function component.  Every handler below is an    *)
(* operator from a state record to a state record, composed in the order   *)
(* of the handler's statements; an action applies one handler to the       *)
(* current state and then runs the effects whose dependencies changed.     *)
(***************************************************************************)
EXTENDS Integers, Sequences, FiniteSets, TLC

\* ---------------------------------------------------------------- bounds
MaxPages == 2          \* the largest book explored (book.pages.length)
MaxPaths == 4          \* capture files the recorder may create in one run
TickSlack == 1         \* how far past a threshold the stopwatch is followed
MaxSessions == 2       \* number of times the reader is opened in one run
MaxFaults == 1         \* handlers during which an adapter fails (FaultSpec)
MaxQuestions == 2      \* questions of a quiz (QuizSpec)
MaxAnswers == 4        \* answers tapped during one quiz (QuizSpec)
MaxCalls == 2          \* runs of completeQuiz (QuizSpec)
MaxQuizSessions == 1   \* quiz openings (QuizSpec)
MaxListVisits == 2     \* openings of the book list (ListSpec)
MaxPending == 2        \* Submit presses whose checkpoint is still on its way (RaceSpec)

\* ------------------------------------------------------ program constants
MIN_DWELL == 120       \* handleNextPage: currentSeconds < 120
EXT_LIMIT == 420       \* overtime effect: current < 420
INT_CAP == 600         \* tick interval: currentRecorded < 600

Pages == 1..MaxPages
Undef == -1            \* timersByPage[p] === undefined
NoRec == -1            \* recordedTotalSeconds absent from a page entry
NoPath == 0            \* stopRecording() === null

Min(a, b) == IF a < b THEN a ELSE b
Max(a, b) == IF a > b THEN a ELSE b

\* One value of pageTimers[page]; isCapped FALSE stands for the absent field
\* (the code never writes isCapped: false).
NoEntry == [present |-> FALSE, totalTime |-> 0, rec |-> NoRec, isCapped |-> FALSE]
NoTimers == [p \in Pages |-> NoEntry]

\* A BookProgress document; present FALSE is null / no document.
NoProgress ==
  [present |-> FALSE, currentPage |-> 1, isCompleted |-> FALSE,
   isSubmitted |-> FALSE, lifelineUsed |-> FALSE, pageTimers |-> NoTimers]

\* bookService.startReadingWithBook: the record created when a book is
\* opened for the first time.
startReadingWithBook == [NoProgress EXCEPT !.present = TRUE]

\* A record written by an earlier release: a page that recorded its ten
\* minutes before the isCapped field existed.
LegacyProgress ==
  [startReadingWithBook EXCEPT
     !.pageTimers = [p \in Pages |->
        IF p <= 2 THEN [present |-> TRUE, totalTime |-> INT_CAP - 1,
                        rec |-> INT_CAP, isCapped |-> FALSE]
        ELSE NoEntry]]

NoSession == [isRecording |-> FALSE, path |-> NoPath, page |-> 1]

VARIABLES
  category,          \* book.category
  bookPages,         \* book.pages.length
  mounted,           \* the reader screen is on display
  currentPage,       \* useState currentPage
  progress,          \* useState progress (local copy of the document)
  timersByPage,      \* useState timersByPage
  recordedByPage,    \* useState recordedByPage
  cappedByPage,      \* useState cappedByPage
  exceededPages,     \* useState exceededPages
  lifelineUsed,      \* useState lifelineUsed
  recordingsByPage,  \* useState recordingsByPage (the segment map)
  isUploading,       \* useState isUploading
  uploadProgress,    \* useState uploadProgress
  confirmVisible,    \* useState confirmVisible
  timeLimitVisible,  \* useState timeLimitVisible
  intervalTimers,    \* timersByPage as captured by the running interval closure
  flow,              \* position of the submit / complete handler in flight
  localMap,          \* handleMandatoryUpload: localMap
  uploadedSegments,  \* handleMandatoryUpload: uploadedSegments
  currentSession,    \* audioService.currentSession (+ page of the capture)
  nextPath,          \* next file the native recorder creates
  persisted,         \* Firestore bookProgress/{user}_{book}
  remoteAudio,       \* audio objects in storage for (user, book)
  alert,             \* the Alert.alert the last step has shown
  lastOp,            \* the handler the last step ran
  started,           \* pages on which the last step started a capture
  stopped,           \* captures the last step stopped with a file path
  appended,          \* segments the last step appended to the segment map
  reported,          \* the values the last step passed to setUploadProgress, in order
  overlapped,        \* the last step issued a start request that met a capture it did not stop
  lifelineAt,        \* the reader opening in which the lifeline was last consumed
  capturedByPage,    \* intensive: seconds of audio captured per page over all openings (601: more than 600)
  uploadLog,         \* segments uploaded by the batch in flight, in order
  faultsLeft,        \* adapter failures the environment may still inject
  sessions,          \* reader openings so far
  loading,           \* loadProgress is waiting for the store
  micDenied,         \* the microphone permission is refused on this device
  pendingSubmits,    \* handleSubmitInProgress calls waiting for their checkpoint to be stored
  overlap            \* an upload batch begun while another handler was past its checkpoint

\* QuizScreen, the completions in flight and the user document.
VARIABLES
  quizOpen,              \* the quiz screen is on display
  quizLoading,           \* useState loading
  questions,             \* useState questions: the correctAnswer of each question
  currentQuestionIndex,  \* useState currentQuestionIndex
  userAnswers,           \* useState userAnswers (the answer log)
  selectedAnswer,        \* useState selectedAnswer
  showCongrats,          \* useState showCongrats
  quizCompleted,         \* useState quizCompleted
  advanceTimers,         \* pending setTimeout(..., 1200) closures, oldest first
  clearTimers,           \* pending setTimeout(..., 500) closures, oldest first
  completions,           \* the runs of completeQuiz, in order of their start
  stickers,              \* users/{userId}.stickers
  quizResult,            \* users/{userId}/quizResults/{bookId}
  quizAlert,             \* the Alert.alert the last quiz step has shown
  quizOp,                \* the quiz handler the last step ran
  quizSessions           \* quiz openings so far

\* BookListScreen.
VARIABLES
  listOpen,          \* the book list is on display
  listLoading,       \* useState loading
  books,             \* useState books: the book is in the list shown
  userProgress,      \* useState userProgress: the entry of the book (absent: not in the list)
  booksPending,      \* loadBooks is waiting for getBooks
  progressPending,   \* loadUserProgress is waiting for getUserBookProgress
  listOp,            \* the list handler the last step ran
  listVisits         \* openings of the book list so far

listVars ==
  <<listOpen, listLoading, books, userProgress, booksPending, progressPending,
    listOp, listVisits>>

quizVars ==
  <<quizOpen, quizLoading, questions, currentQuestionIndex, userAnswers,
    selectedAnswer, showCongrats, quizCompleted, advanceTimers, clearTimers,
    completions, stickers, quizResult, quizAlert, quizOp, quizSessions>>

readerVars ==
  <<category, bookPages, mounted, currentPage, progress, timersByPage,
    recordedByPage, cappedByPage, exceededPages, lifelineUsed,
    recordingsByPage, isUploading, uploadProgress, confirmVisible,
    timeLimitVisible, intervalTimers, flow, localMap, uploadedSegments,
    currentSession, nextPath, persisted, remoteAudio, alert, lastOp,
    appended, lifelineAt, reported, overlapped, capturedByPage,
    started, stopped, uploadLog, faultsLeft, sessions, loading, micDenied,
    pendingSubmits, overlap, listVars>>

vars == <<readerVars, quizVars>>

\* The current state as one record, and the step that installs a record.
Cur ==
  [category |-> category, bookPages |-> bookPages, mounted |-> mounted,
   currentPage |-> currentPage, progress |-> progress,
   timersByPage |-> timersByPage, recordedByPage |-> recordedByPage,
   cappedByPage |-> cappedByPage, exceededPages |-> exceededPages,
   lifelineUsed |-> lifelineUsed, recordingsByPage |-> recordingsByPage,
   isUploading |-> isUploading, uploadProgress |-> uploadProgress,
   confirmVisible |-> confirmVisible, timeLimitVisible |-> timeLimitVisible,
   intervalTimers |-> intervalTimers, flow |-> flow, localMap |-> localMap,
   uploadedSegments |-> uploadedSegments, currentSession |-> currentSession,
   nextPath |-> nextPath, persisted |-> persisted, remoteAudio |-> remoteAudio,
   alert |-> "none", lastOp |-> lastOp, started |-> {}, stopped |-> {},
   appended |-> {}, lifelineAt |-> lifelineAt, reported |-> <<>>,
   capturedByPage |-> capturedByPage,
   overlapped |-> FALSE,
   uploadLog |-> uploadLog, faultsLeft |-> faultsLeft, sessions |-> sessions,
   loading |-> loading,
   \* not state: which effect dependencies the handler has set so far
   dirtyStart |-> FALSE, dirtyInterval |-> FALSE]

Installs(s) ==
  /\ category' = s.category
  /\ bookPages' = s.bookPages
  /\ mounted' = s.mounted
  /\ currentPage' = s.currentPage
  /\ progress' = s.progress
  /\ timersByPage' = s.timersByPage
  /\ recordedByPage' = s.recordedByPage
  /\ cappedByPage' = s.cappedByPage
  /\ exceededPages' = s.exceededPages
  /\ lifelineUsed' = s.lifelineUsed
  /\ recordingsByPage' = s.recordingsByPage
  /\ isUploading' = s.isUploading
  /\ uploadProgress' = s.uploadProgress
  /\ confirmVisible' = s.confirmVisible
  /\ timeLimitVisible' = s.timeLimitVisible
  /\ intervalTimers' = s.intervalTimers
  /\ flow' = s.flow
  /\ localMap' = s.localMap
  /\ uploadedSegments' = s.uploadedSegments
  /\ currentSession' = s.currentSession
  /\ nextPath' = s.nextPath
  /\ persisted' = s.persisted
  /\ remoteAudio' = s.remoteAudio
  /\ alert' = s.alert
  /\ lastOp' = s.lastOp
  /\ appended' = s.appended
  /\ reported' = s.reported
  /\ overlapped' = s.overlapped
  /\ lifelineAt' = s.lifelineAt
  /\ capturedByPage' = s.capturedByPage
  /\ started' = s.started
  /\ stopped' = s.stopped
  /\ uploadLog' = s.uploadLog
  /\ faultsLeft' = s.faultsLeft
  /\ sessions' = s.sessions
  /\ loading' = s.loading

\* A handler of the reader leaves the permission, the quiz and the handlers
\* that wait for the store as they are.
Becomes(s) ==
  /\ Installs(s)
  /\ UNCHANGED micDenied
  /\ UNCHANGED quizVars
  /\ UNCHANGED <<pendingSubmits, overlap>>
  /\ UNCHANGED listVars

\* The outcome of the adapters during one handler: the progress store
\* accepts writes, the microphone can be opened, and whether two overlapping
\* startRecording calls run one after the other.
Envs == [storeOk : BOOLEAN, micOk : BOOLEAN, remoteOk : BOOLEAN, serial : BOOLEAN]
Fault(e) == ~e.storeOk \/ ~e.micOk \/ ~e.remoteOk
AllOk == [storeOk |-> TRUE, micOk |-> TRUE, remoteOk |-> TRUE, serial |-> TRUE]

\* getTotalPages
getTotalPages(s) == IF s.bookPages > 0 THEN s.bookPages ELSE 7

\* timersByPage[page] ?? 0
Timer(s, page) == IF s.timersByPage[page] = Undef THEN 0 ELSE s.timersByPage[page]

\* ------------------------------------------------------------ audioService

\* AudioService.stopRecording: null unless a capture is active; otherwise the
\* capture ends and its file path is returned.
stopRecordingPath(s) ==
  IF s.currentSession.isRecording THEN s.currentSession.path ELSE NoPath

stopRecording(s) ==
  IF ~s.currentSession.isRecording THEN s
  ELSE [s EXCEPT !.currentSession.isRecording = FALSE,
                 !.stopped = @ \cup {[page |-> s.currentSession.page,
                                      path |-> s.currentSession.path]}]

\* AudioService.startRecording: refused without permission; stops a capture
\* that is still active (its path is the discarded return value of
\* stopRecording) and starts a new one.
startRecording_IgnoresPermission(s, pageNumber, e) ==
  LET s1 == stopRecording(s)
  IN [s1 EXCEPT !.currentSession = [isRecording |-> TRUE, path |-> s.nextPath,
                                    page |-> pageNumber],
                !.nextPath = @ + 1,
                !.started = @ \cup {pageNumber}]

startRecording(s, pageNumber, e) ==
  IF ~e.micOk THEN [s EXCEPT !.alert = "Permission Required"]
  ELSE LET s1 == stopRecording(s)
       IN [s1 EXCEPT !.currentSession = [isRecording |-> TRUE, path |-> s.nextPath,
                                         page |-> pageNumber],
                     !.nextPath = @ + 1,
                     !.started = @ \cup {pageNumber}]

\* AudioService.cleanup
cleanup(s) == stopRecording(s)

\* ------------------------------------------------------------- bookService

\* setDoc(..., {merge: true}) on one pageTimers entry: the fields the write
\* carries replace the stored ones, the others stay.
MergeEntry(old, new) ==
  IF ~new.present THEN old
  ELSE [present |-> TRUE,
        totalTime |-> new.totalTime,
        rec |-> IF new.rec # NoRec THEN new.rec ELSE old.rec,
        isCapped |-> old.isCapped \/ new.isCapped]

\* BookService.updateBookProgress: merge-write of the whole record; throws
\* when the store rejects the write.
updateBookProgress(s, doc, e) ==
  IF ~e.storeOk THEN s
  ELSE [s EXCEPT !.persisted =
          [present |-> TRUE,
           currentPage |-> doc.currentPage,
           isCompleted |-> doc.isCompleted,
           isSubmitted |-> doc.isSubmitted,
           lifelineUsed |-> s.persisted.lifelineUsed \/ doc.lifelineUsed,
           pageTimers |-> [p \in Pages |->
              MergeEntry(s.persisted.pageTimers[p], doc.pageTimers[p])]]]

\* BookService.getBookProgress
getBookProgress(s, e) == IF e.storeOk THEN s.persisted ELSE NoProgress

\* BookService.submitBook / completeBook: read the record, set the flag,
\* write it back.
submitBook(s, e) ==
  IF ~e.storeOk \/ ~s.persisted.present THEN s
  ELSE updateBookProgress(s, [s.persisted EXCEPT !.isSubmitted = TRUE], e)

completeBook(s, e) ==
  IF ~e.storeOk \/ ~s.persisted.present THEN s
  ELSE updateBookProgress(s, [s.persisted EXCEPT !.isCompleted = TRUE], e)

\* BookService.resetBookProgress: timers and lifeline wiped, back to page 1.
resetBookProgress(s) ==
  [s EXCEPT !.persisted = [@ EXCEPT !.currentPage = 1, !.lifelineUsed = FALSE,
                                    !.pageTimers = NoTimers]]

\* storageService.deleteAllUserBookAudio
deleteAllUserBookAudio(s) == [s EXCEPT !.remoteAudio = {}]

\* ------------------------------------------------------------ the reader

\* stopCurrentRecording: a returned path is appended to the segment map
\* under currentPage.
stopCurrentRecording(s) ==
  LET path == stopRecordingPath(s)
      s1 == stopRecording(s)
  IN IF path # NoPath
       THEN [s1 EXCEPT !.recordingsByPage[s.currentPage] = Append(@, path),
                       !.appended = @ \cup {[page |-> s.currentPage, path |-> path]}]
       ELSE s1

\* The pageTimers object of the local record; every record the component
\* builds reuses it, so a write into it is seen through older records too.
LocalTimers(s) == IF s.progress.present THEN s.progress.pageTimers ELSE NoTimers

\* finalizePageTime: the record it hands to updateBookProgress.
finalizeRecord_AddsToStored(s, page) ==
  [present |-> TRUE, currentPage |-> page, isCompleted |-> FALSE,
   isSubmitted |-> FALSE, lifelineUsed |-> FALSE,
   pageTimers |-> [LocalTimers(s) EXCEPT ![page] =
      [present |-> TRUE, totalTime |-> @.totalTime + Timer(s, page), rec |-> NoRec,
       isCapped |-> FALSE]]]

finalizeRecord(s, page) ==
  [present |-> TRUE, currentPage |-> page, isCompleted |-> FALSE,
   isSubmitted |-> FALSE, lifelineUsed |-> FALSE,
   pageTimers |-> [LocalTimers(s) EXCEPT ![page] =
      [present |-> TRUE, totalTime |-> Timer(s, page), rec |-> NoRec,
       isCapped |-> FALSE]]]

\* finalizePageTime: its return value (the catch returns the old record,
\* whose pageTimers already carries the new entry).
finalizeResult(s, page, e) ==
  IF e.storeOk THEN finalizeRecord(s, page)
  ELSE IF s.progress.present
         THEN [s.progress EXCEPT !.pageTimers = finalizeRecord(s, page).pageTimers]
         ELSE NoProgress

\* finalizePageTime: write the absolute stopwatch value of the page.
finalizePageTime(s, page, e) ==
  LET s1 == updateBookProgress(s, finalizeRecord(s, page), e)
  IN IF e.storeOk
       THEN [s1 EXCEPT !.progress = finalizeRecord(s, page), !.dirtyStart = TRUE]
       ELSE [s1 EXCEPT !.progress = finalizeResult(s, page, e)]

\* persistCapForPage: the record it hands to updateBookProgress; tm is the
\* timersByPage its closure holds.
capRecord(s, page, recordedSeconds, tm) ==
  LET absolute == IF tm[page] # Undef THEN tm[page]
                  ELSE IF LocalTimers(s)[page].present
                         THEN LocalTimers(s)[page].totalTime ELSE 0
  IN [present |-> TRUE, currentPage |-> page,
      isCompleted |-> s.progress.present /\ s.progress.isCompleted,
      isSubmitted |-> s.progress.present /\ s.progress.isSubmitted,
      lifelineUsed |-> FALSE,
      pageTimers |-> [LocalTimers(s) EXCEPT ![page] =
         [present |-> TRUE, totalTime |-> absolute,
          rec |-> Min(INT_CAP, recordedSeconds), isCapped |-> TRUE]]]

persistCapForPage(s, page, recordedSeconds, tm, e) ==
  LET doc == capRecord(s, page, recordedSeconds, tm)
      s1 == updateBookProgress(s, doc, e)
  IN IF e.storeOk
       THEN [s1 EXCEPT !.progress = doc, !.dirtyStart = TRUE]
       ELSE IF s.progress.present
              THEN [s1 EXCEPT !.progress.pageTimers = doc.pageTimers]
              ELSE s1

startRecordingForPage_AlwaysStarts(s, pageNumber, c, e) ==
  LET s1 == startRecording(s, pageNumber, e)
  IN IF e.micOk THEN s1 ELSE [s1 EXCEPT !.alert = "Recording Error"]

\* startRecordingForPage; c is the render whose state the caller closed over.
startRecordingForPage(s, pageNumber, c, e) ==
  LET pg == IF c.progress.present THEN LocalTimers(s)[pageNumber] ELSE NoEntry
      recSecs == pg.rec
      effectiveCap == \/ c.cappedByPage[pageNumber]
                      \/ pg.isCapped
                      \/ (recSecs # NoRec /\ recSecs >= INT_CAP)
                      \/ pg.totalTime >= INT_CAP
      exceeded == \/ c.exceededPages[pageNumber]
                  \/ Timer(c, pageNumber) >= EXT_LIMIT
                  \/ pg.totalTime >= EXT_LIMIT
      capped == [s EXCEPT !.cappedByPage[pageNumber] = TRUE, !.dirtyInterval = TRUE]
  IN IF s.category = "intensive" /\ effectiveCap
       THEN IF ~pg.isCapped
              THEN persistCapForPage(capped, pageNumber,
                     Max(IF recSecs = NoRec THEN 0 ELSE recSecs, INT_CAP),
                     c.timersByPage, e)
              ELSE capped
     ELSE IF s.category = "extensive" /\ exceeded
       THEN capped
     ELSE LET s1 == startRecording(s, pageNumber, e)
          IN IF e.micOk THEN s1 ELSE [s1 EXCEPT !.alert = "Recording Error"]

handleExtensiveReset_KeepsRecord(s, e) ==
  LET s1 == stopRecording(s)
      s2 == deleteAllUserBookAudio(s1)
  IN IF ~e.remoteOk THEN s1
     ELSE IF ~e.storeOk THEN s2
     ELSE [s2 EXCEPT !.timersByPage = [p \in Pages |-> Undef],
                     !.recordedByPage = [p \in Pages |-> 0],
                     !.exceededPages = [p \in Pages |-> FALSE],
                     !.cappedByPage = [p \in Pages |-> FALSE],
                     !.lifelineUsed = FALSE,
                     !.timeLimitVisible = TRUE,
                     !.dirtyInterval = TRUE]

\* handleExtensiveReset: the first failing call ends it (catch).
handleExtensiveReset(s, e) ==
  LET s1 == stopRecording(s)
      s2 == deleteAllUserBookAudio(s1)
      s3 == resetBookProgress(s2)
  IN IF ~e.remoteOk THEN s1
     ELSE IF ~e.storeOk THEN s2
     ELSE [s3 EXCEPT !.timersByPage = [p \in Pages |-> Undef],
                     !.recordedByPage = [p \in Pages |-> 0],
                     !.exceededPages = [p \in Pages |-> FALSE],
                     !.cappedByPage = [p \in Pages |-> FALSE],
                     !.lifelineUsed = FALSE,
                     !.timeLimitVisible = TRUE,
                     !.dirtyInterval = TRUE]

\* The overtime effect, its decision: what the policy does about the current
\* page's stopwatch ("none" when the effect returns early).
exceedPolicy_LifelineForgotten(s) ==
  LET cur == s.currentPage
      total == getTotalPages(s)
      priorExceeds == (IF s.exceededPages[1] THEN 1 ELSE 0)
                      + (IF s.exceededPages[2] THEN 1 ELSE 0)
  IN IF s.category # "extensive" \/ Timer(s, cur) < EXT_LIMIT \/ s.exceededPages[cur]
       THEN "none"
     ELSE IF total = 1 THEN "reset"
     ELSE IF total = 2
       THEN IF priorExceeds >= 1 THEN "reset" ELSE "cap"
     ELSE "none"

exceedPolicy_OnePageLifeline(s) ==
  LET cur == s.currentPage
      total == getTotalPages(s)
      priorExceeds == (IF s.exceededPages[1] THEN 1 ELSE 0)
                      + (IF s.exceededPages[2] THEN 1 ELSE 0)
  IN IF s.category # "extensive" \/ Timer(s, cur) < EXT_LIMIT \/ s.exceededPages[cur]
       THEN "none"
     ELSE IF total <= 2
       THEN IF priorExceeds >= 1 THEN "reset"
            ELSE IF ~s.lifelineUsed THEN "lifeline"
            ELSE "cap"
     ELSE "none"

exceedPolicy_AnyCategory(s) ==
  LET cur == s.currentPage
      total == getTotalPages(s)
      priorExceeds == (IF s.exceededPages[1] THEN 1 ELSE 0)
                      + (IF s.exceededPages[2] THEN 1 ELSE 0)
  IN IF Timer(s, cur) < EXT_LIMIT \/ s.exceededPages[cur]
       THEN "none"
     ELSE IF total = 1 THEN "reset"
     ELSE IF total = 2
       THEN IF priorExceeds >= 1 THEN "reset"
            ELSE IF ~s.lifelineUsed THEN "lifeline"
            ELSE "cap"
     ELSE "none"

exceedPolicy(s) ==
  LET cur == s.currentPage
      total == getTotalPages(s)
      priorExceeds == (IF s.exceededPages[1] THEN 1 ELSE 0)
                      + (IF s.exceededPages[2] THEN 1 ELSE 0)
  IN IF s.category # "extensive" \/ Timer(s, cur) < EXT_LIMIT \/ s.exceededPages[cur]
       THEN "none"
     ELSE IF total = 1 THEN "reset"
     ELSE IF total = 2
       THEN IF priorExceeds >= 1 THEN "reset"
            ELSE IF ~s.lifelineUsed THEN "lifeline"
            ELSE "cap"
     ELSE "none"

\* The overtime effect (extensive books), run after every render in which
\* timersByPage, currentPage, lifelineUsed or exceededPages changed.
overtimeEffect(s, e) ==
  LET cur == s.currentPage
      marked == [s EXCEPT !.exceededPages[cur] = TRUE]
      capped == [marked EXCEPT !.cappedByPage[cur] = TRUE, !.dirtyInterval = TRUE]
      stoppedRec == stopCurrentRecording([capped EXCEPT !.lifelineUsed = TRUE,
                                                        !.lifelineAt = s.sessions])
      updated == finalizeResult(stoppedRec, cur, e)
      finalized == finalizePageTime(stoppedRec, cur, e)
      policy == exceedPolicy(s)
  IN IF policy = "reset"
       THEN handleExtensiveReset(stopCurrentRecording(marked), e)
     ELSE IF policy = "lifeline"
       THEN IF updated.present
              THEN updateBookProgress(
                     [finalized EXCEPT !.progress.lifelineUsed = TRUE],
                     [updated EXCEPT !.lifelineUsed = TRUE], e)
              ELSE finalized
     ELSE IF policy = "cap"
       THEN stopCurrentRecording(capped)
     ELSE s

\* The start-recording effect on [progress, currentPage].  When it overlaps
\* with a startRecording call the same step has already issued and the two
\* do not run one after the other, the recorder rejects the second start.
startEffect(s, e) ==
  IF ~s.progress.present THEN s
  ELSE IF s.currentSession.isRecording /\ s.started # {} /\ ~e.serial
    THEN [s EXCEPT !.alert = "Recording Error", !.overlapped = TRUE]
  ELSE startRecordingForPage(s, s.currentPage, s, e)

\* Run the effects of the render that follows a handler, until no
\* dependency is left changed; last, the interval is re-created over the
\* timersByPage of that render if one of its dependencies changed.
RECURSIVE Effects(_, _)
Effects(s, e) ==
  IF ~s.mounted THEN s
  ELSE IF s.dirtyStart
    THEN Effects(startEffect([s EXCEPT !.dirtyStart = FALSE], e), e)
  ELSE IF overtimeEffect(s, e) # s
    THEN Effects(overtimeEffect(s, e), e)
  ELSE IF s.dirtyInterval
    THEN [s EXCEPT !.intervalTimers = s.timersByPage, !.dirtyInterval = FALSE]
  ELSE s

reachedCap_FlagOnly(t) ==
  t.isCapped \/ t.totalTime >= INT_CAP

\* loadProgress: reachedCap for one stored page entry.
reachedCap(t) ==
  t.isCapped \/ (t.rec # NoRec /\ t.rec >= INT_CAP) \/ t.totalTime >= INT_CAP

\* loadProgress: seed the per-page state from the stored record.
loadProgress(s, e) ==
  LET up == getBookProgress(s, e)
      known == {p \in Pages : up.pageTimers[p].present}
      seededExceeded ==
        IF s.category = "extensive" /\ getTotalPages(s) = 2
          THEN {p \in known : up.pageTimers[p].totalTime >= EXT_LIMIT}
          ELSE {}
  IN IF ~up.present THEN s
     ELSE [s EXCEPT
       !.progress = up,
       !.currentPage = up.currentPage,
       !.timersByPage = [p \in Pages |->
          IF p \in known THEN up.pageTimers[p].totalTime ELSE @[p]],
       !.recordedByPage = [p \in Pages |->
          IF p \in known /\ up.pageTimers[p].rec # NoRec
            THEN up.pageTimers[p].rec ELSE @[p]],
       !.cappedByPage = [p \in Pages |->
          IF p \in known /\ reachedCap(up.pageTimers[p]) THEN TRUE
          ELSE IF p \in seededExceeded THEN TRUE ELSE @[p]],
       !.lifelineUsed = @ \/ up.lifelineUsed,
       !.exceededPages = [p \in Pages |-> IF p \in seededExceeded THEN TRUE ELSE @[p]],
       !.dirtyStart = TRUE,
       !.dirtyInterval = TRUE]

\* One run of the interval callback.
tick_CapNotPersisted(s, e) ==
  LET cur == s.currentPage
      s1 == [s EXCEPT !.timersByPage[cur] = Timer(s, cur) + 1,
                      !.capturedByPage[s.currentSession.page] =
                         IF s.category = "intensive" /\ s.currentSession.isRecording
                           THEN Min(INT_CAP + 1, @ + 1) ELSE @]
      isCapped == s.cappedByPage[cur]
      recording == s.currentSession.isRecording
      currentRecorded == s.recordedByPage[cur]
      nextRecorded == Min(INT_CAP, currentRecorded + 1)
      counted == [s1 EXCEPT !.recordedByPage[cur] = nextRecorded, !.dirtyInterval = TRUE]
  IN IF s.category # "intensive" THEN s1
     ELSE IF isCapped /\ recording THEN stopRecording(s1)
     ELSE IF ~isCapped /\ recording /\ currentRecorded < INT_CAP
       THEN IF nextRecorded >= INT_CAP
              THEN [stopRecording(counted) EXCEPT !.cappedByPage[cur] = TRUE]
              ELSE counted
     ELSE s1

tick(s, e) ==
  LET cur == s.currentPage
      s1 == [s EXCEPT !.timersByPage[cur] = Timer(s, cur) + 1,
                      !.capturedByPage[s.currentSession.page] =
                         IF s.category = "intensive" /\ s.currentSession.isRecording
                           THEN Min(INT_CAP + 1, @ + 1) ELSE @]
      isCapped == s.cappedByPage[cur]
      recording == s.currentSession.isRecording
      currentRecorded == s.recordedByPage[cur]
      nextRecorded == Min(INT_CAP, currentRecorded + 1)
      counted == [s1 EXCEPT !.recordedByPage[cur] = nextRecorded, !.dirtyInterval = TRUE]
  IN IF s.category # "intensive" THEN s1
     ELSE IF isCapped /\ recording THEN stopRecording(s1)
     ELSE IF ~isCapped /\ recording /\ currentRecorded < INT_CAP
       THEN IF nextRecorded >= INT_CAP
              THEN persistCapForPage(
                     [stopRecording(counted) EXCEPT !.cappedByPage[cur] = TRUE],
                     cur, nextRecorded, s.intervalTimers, e)
              ELSE counted
     ELSE s1

\* n - 1 interval callbacks during which no policy reacts: the stopwatch
\* and, while an uncapped intensive capture runs, the recorded seconds
\* advance; each such callback re-creates the interval.
quietTicks(s, n) ==
  LET cur == s.currentPage
      counting == s.category = "intensive" /\ s.currentSession.isRecording
                  /\ ~s.cappedByPage[cur]
      s1 == [s EXCEPT !.timersByPage[cur] = Timer(s, cur) + (n - 1),
                      !.capturedByPage[s.currentSession.page] =
                         IF s.category = "intensive" /\ s.currentSession.isRecording
                           THEN Min(INT_CAP + 1, @ + (n - 1)) ELSE @]
  IN IF n = 1 THEN s
     ELSE IF counting
       THEN [s1 EXCEPT !.recordedByPage[cur] = @ + (n - 1),
                       !.intervalTimers = s1.timersByPage]
     ELSE s1

\* No policy reacts before the last of n callbacks.
Quiet(s, n) ==
  LET cur == s.currentPage
  IN \/ n = 1
     \/ /\ s.category = "intensive" =>
             /\ ~(s.cappedByPage[cur] /\ s.currentSession.isRecording)
             /\ (s.currentSession.isRecording /\ ~s.cappedByPage[cur])
                   => s.recordedByPage[cur] + (n - 1) < INT_CAP
        /\ (s.category = "extensive" /\ ~s.exceededPages[cur])
             => Timer(s, cur) + (n - 1) < EXT_LIMIT

\* The body shared by handlePreviousPage and handleNextPage.
navigate(s, newPage, e) ==
  LET cur == s.currentPage
      a == stopCurrentRecording(s)
      b == finalizePageTime(a, cur, e)
      newProgress == finalizeResult(a, cur, e)
      pt == IF newProgress.present THEN newProgress.pageTimers[newPage] ELSE NoEntry
      saved == IF pt.totalTime # 0 THEN pt.totalTime ELSE Timer(s, newPage)
      recordedSaved ==
        IF pt.rec # NoRec /\ pt.rec # 0 THEN pt.rec
        ELSE IF s.recordedByPage[newPage] # 0 THEN s.recordedByPage[newPage]
        ELSE IF pt.totalTime >= INT_CAP THEN INT_CAP ELSE 0
      isCapped == \/ pt.isCapped
                  \/ s.cappedByPage[newPage]
                  \/ (pt.rec # NoRec /\ pt.rec >= INT_CAP)
                  \/ pt.totalTime >= INT_CAP
      c == [b EXCEPT !.currentPage = newPage,
                     !.timersByPage[newPage] = saved,
                     !.recordedByPage[newPage] = recordedSaved,
                     !.cappedByPage[newPage] = isCapped,
                     !.dirtyStart = TRUE,
                     !.dirtyInterval = TRUE]
  IN startRecordingForPage(c, newPage, s, e)

handlePreviousPage_NeedsStore(s, e) ==
  IF s.currentPage > 1 /\ e.storeOk THEN navigate(s, s.currentPage - 1, e) ELSE s

handlePreviousPage(s, e) ==
  IF s.currentPage > 1 THEN navigate(s, s.currentPage - 1, e) ELSE s

handleNextPage_NoDwell(s, e) ==
  IF s.currentPage < getTotalPages(s)
    THEN navigate(s, s.currentPage + 1, e)
  ELSE s

handleNextPage_HardCodedTotal(s, e) ==
  IF Timer(s, s.currentPage) < MIN_DWELL
    THEN [s EXCEPT !.alert = "Please read a bit longer"]
  ELSE IF s.currentPage < MaxPages
    THEN navigate(s, s.currentPage + 1, e)
  ELSE s

handleNextPage(s, e) ==
  IF Timer(s, s.currentPage) < MIN_DWELL
    THEN [s EXCEPT !.alert = "Please read a bit longer"]
  ELSE IF s.currentPage < getTotalPages(s)
    THEN navigate(s, s.currentPage + 1, e)
  ELSE s

\* The state of a reader that is not on display: the component state is
\* gone, the unmount cleanup has stopped the recorder.
unmount(s) ==
  [cleanup(s) EXCEPT
     !.mounted = FALSE, !.loading = FALSE, !.currentPage = 1,
     !.progress = NoProgress,
     !.timersByPage = [p \in Pages |-> Undef],
     !.recordedByPage = [p \in Pages |-> 0],
     !.cappedByPage = [p \in Pages |-> FALSE],
     !.exceededPages = [p \in Pages |-> FALSE],
     !.lifelineUsed = FALSE,
     !.recordingsByPage = [p \in Pages |-> <<>>],
     !.isUploading = FALSE, !.uploadProgress = 0,
     !.confirmVisible = FALSE, !.timeLimitVisible = FALSE,
     !.intervalTimers = [p \in Pages |-> Undef],
     !.flow = "idle", !.localMap = [p \in Pages |-> <<>>],
     !.uploadedSegments = 0, !.uploadLog = <<>>]

\* handleBackPress: stop, checkpoint, leave.
handleBackPress(s, e) ==
  unmount(finalizePageTime(stopCurrentRecording(s), s.currentPage, e))

\* ------------------------------------------------------- submit / complete

\* handleMandatoryUpload: the segment map it uploads from.  closure is the
\* recordingsByPage of the render the handler was created in.
buildLocalMap(closure, page, currentFilePath) ==
  IF currentFilePath # NoPath
     /\ \A i \in 1..Len(closure[page]) : closure[page][i] # currentFilePath
    THEN [closure EXCEPT ![page] = Append(@, currentFilePath)]
    ELSE closure

\* pagesToUpload: the keys of localMap in ascending order.
pagesToUpload(map) == {p \in Pages : map[p] # <<>>}

RECURSIVE Flatten(_, _)
\* The nested upload loops as one list of <<page, path>>: pages from p
\* upward, each page's segments in list order.
Flatten(map, p) ==
  IF p > MaxPages THEN <<>>
  ELSE [i \in 1..Len(map[p]) |-> <<p, map[p][i]>>] \o Flatten(map, p + 1)

RECURSIVE FlattenDown(_, _)
FlattenDown(map, p) ==
  IF p < 1 THEN <<>>
  ELSE [i \in 1..Len(map[p]) |-> <<p, map[p][i]>>] \o FlattenDown(map, p - 1)

uploadOrder_Descending(map) == FlattenDown(map, MaxPages)

uploadOrder(map) == Flatten(map, 1)

\* handleMandatoryUpload up to the upload loop.
beginUpload(s, closure, kind) ==
  LET s1 == [s EXCEPT !.isUploading = TRUE, !.uploadProgress = 0,
                      !.reported = Append(@, 0)]
      currentFilePath == stopRecordingPath(s1)
      s2 == stopCurrentRecording(s1)
      map == buildLocalMap(closure, s.currentPage, currentFilePath)
  IN IF pagesToUpload(map) = {}
       THEN [s2 EXCEPT !.alert = "No audio recording found",
                       !.isUploading = FALSE, !.flow = kind,
                       !.localMap = map, !.uploadedSegments = 0, !.uploadLog = <<>>]
       ELSE [s2 EXCEPT !.flow = kind, !.localMap = map,
                       !.uploadedSegments = 0, !.uploadLog = <<>>]

\* What follows handleMandatoryUpload in its caller: submitBook or
\* completeBook, then the alert whose OK button leaves the reader.  A
\* rejected write ends the handler without the alert.
afterUpload(s, e) ==
  IF s.flow = "submit"
    THEN IF e.storeOk
           THEN [submitBook(s, e) EXCEPT !.alert = "Saved", !.flow = "alertSaved"]
           ELSE [s EXCEPT !.flow = "idle"]
    ELSE IF e.storeOk
           THEN [completeBook(s, e) EXCEPT !.alert = "Completed", !.flow = "alertCompleted"]
           ELSE [s EXCEPT !.flow = "idle"]

\* AudioService.uploadSegment: how one call can end, and the percentages it
\* has passed to onProgress by then.
UploadOutcomes == {"ok", "noNetwork", "noBlob", "noUpload"}

onProgressCalls(outcome) ==
  IF outcome = "ok" THEN <<10, 20, 40, 90, 100>>
  ELSE IF outcome = "noUpload" THEN <<10, 20, 40>>
  ELSE IF outcome = "noBlob" THEN <<10>>
  ELSE <<>>

\* AudioService.uploadSegment for segment seg: the value it returns, the
\* percentages it has passed to onProgress, the calls it has made to
\* storageService.uploadAudioFile, what has left it as an exception, and
\* the state it leaves.  Every error is caught and turned into the result.
uploadSegment_DoneBeforeStored(s, seg, outcome) ==
  [success |-> outcome = "ok",
   error |-> IF outcome = "ok" THEN "none" ELSE outcome,
   thrown |-> "none",
   onProgress |-> IF outcome \in {"ok", "noUpload"} THEN <<10, 20, 40, 90, 100>>
                  ELSE onProgressCalls(outcome),
   uploadCalls |-> IF outcome \in {"ok", "noUpload"} THEN 1 ELSE 0,
   state |-> IF outcome = "ok" THEN [s EXCEPT !.remoteAudio = @ \cup {seg}] ELSE s]

uploadSegment(s, seg, outcome) ==
  [success |-> outcome = "ok",
   error |-> IF outcome = "ok" THEN "none" ELSE outcome,
   thrown |-> "none",
   onProgress |-> onProgressCalls(outcome),
   uploadCalls |-> IF outcome \in {"ok", "noUpload"} THEN 1 ELSE 0,
   state |-> IF outcome = "ok" THEN [s EXCEPT !.remoteAudio = @ \cup {seg}] ELSE s]

\* perFileUpdater(p): the overall percentage shown for p percent of the
\* segment in flight.
perFileUpdater_SegmentOnly(uploaded, totalSegments, p) ==
  Min(99, p \div totalSegments)

perFileUpdater(uploaded, totalSegments, p) ==
  Min(99, ((uploaded * 100) \div totalSegments) + (p \div totalSegments))

\* The catch of handleMandatoryUpload.
uploadFailed_ClearsQueue(s) ==
  [s EXCEPT !.isUploading = FALSE, !.alert = "Upload Failed",
            !.recordingsByPage = [p \in Pages |-> <<>>]]

uploadFailed(s) ==
  [s EXCEPT !.isUploading = FALSE, !.alert = "Upload Failed"]

\* One pass of the upload loop: uploadSegment for the next queued segment.
\* On failure the loop is left through the catch; after the last segment the
\* map is cleared.  Either way the caller goes on.
uploadStep(s, outcome, e) ==
  LET order == uploadOrder(s.localMap)
      seg == order[s.uploadedSegments + 1]
      result == uploadSegment(s, seg, outcome)
      calls == result.onProgress
      shown == [i \in 1..Len(calls) |->
                  perFileUpdater(s.uploadedSegments, Len(order), calls[i])]
      during == [result.state EXCEPT !.reported = @ \o shown,
                                     !.uploadProgress = IF shown = <<>> THEN @
                                                        ELSE shown[Len(shown)]]
      sent == [during EXCEPT !.uploadLog = Append(@, seg),
                             !.uploadedSegments = @ + 1]
  IN IF ~result.success
       THEN afterUpload(uploadFailed(during), e)
     ELSE IF s.uploadedSegments + 1 = Len(order)
       THEN afterUpload([sent EXCEPT !.uploadProgress = 100,
                           !.reported = Append(@, 100),
                           !.isUploading = FALSE,
                           !.recordingsByPage = [p \in Pages |-> <<>>]], e)
     ELSE sent

\* handleMandatoryUpload and the caller's continuation when nothing is queued.
startBatch(s, closure, kind, e) ==
  LET b == beginUpload(s, closure, kind)
  IN IF b.isUploading THEN b ELSE afterUpload(b, e)

\* handleSubmitInProgress.  The start-recording effect set off by the
\* checkpoint runs before or after the handler stops the capture.
handleSubmitInProgress(s, e) ==
  LET f == finalizePageTime(s, s.currentPage, e)
  IN IF e.serial
       THEN startBatch(Effects(f, e), s.recordingsByPage, "submit", e)
       ELSE startBatch(f, s.recordingsByPage, "submit", e)

\* handleSubmitBook (the Complete button): checkpoint, then ask.
handleSubmitBook(s, e) ==
  [finalizePageTime(s, s.currentPage, e) EXCEPT !.confirmVisible = TRUE]

\* ConfirmSubmitModal.onCompleteBook
onCompleteBook(s, e) ==
  startBatch([s EXCEPT !.confirmVisible = FALSE], s.recordingsByPage, "complete", e)

\* ConfirmSubmitModal.onSubmitInProgress
onSubmitInProgress(s, e) ==
  handleSubmitInProgress([s EXCEPT !.confirmVisible = FALSE], e)

\* ----------------------------------------------------------------- actions

\* The stopwatch values the interval is followed to.
Marks(cat) ==
  {c + d : c \in {MIN_DWELL, IF cat = "intensive" THEN INT_CAP ELSE EXT_LIMIT},
             d \in (-1)..TickSlack}

\* The next mark after stopwatch value t (0 when there is none).
NextMark(cat, t) ==
  IF \E m \in Marks(cat) : m > t
    THEN CHOOSE m \in Marks(cat) : m > t /\ \A k \in Marks(cat) : k > t => m <= k
    ELSE 0

\* No modal covers the reader and no submit handler is in flight.
UiFree ==
  mounted /\ ~isUploading /\ ~confirmVisible /\ ~timeLimitVisible /\ flow = "idle"

\* Install the state a handler and the effects after it leave behind.
Step(s, op, e) ==
  LET s1 == Effects(s, e)
  IN /\ s1.nextPath <= MaxPaths + 1
     /\ Becomes([s1 EXCEPT !.lastOp = op,
                           !.faultsLeft = IF Fault(e) /\ ~micDenied THEN @ - 1 ELSE @])

\* The adapter outcomes the environment may produce now.  Where the
\* permission is refused, the microphone cannot be opened in any handler.
EnvsNow ==
  IF micDenied
    THEN {e \in Envs : ~e.micOk /\ e.storeOk /\ e.remoteOk /\ e.serial}
  ELSE {e \in Envs : Fault(e) => faultsLeft > 0}

\* The quiz screen before it is first opened.
NoSelection == 0 - 1
NoResult == [present |-> FALSE, score |-> 0, totalQuestions |-> 0, passed |-> FALSE]

QuizClosed ==
  /\ quizOpen = FALSE
  /\ quizLoading = FALSE
  /\ questions = <<>>
  /\ currentQuestionIndex = 0
  /\ userAnswers = <<>>
  /\ selectedAnswer = NoSelection
  /\ showCongrats = FALSE
  /\ quizCompleted = FALSE
  /\ advanceTimers = <<>>
  /\ clearTimers = <<>>
  /\ completions = <<>>
  /\ quizResult = NoResult
  /\ quizAlert = "none"
  /\ quizOp = "none"
  /\ quizSessions = 0

\* No second upload batch.
NoOverlap ==
  [running |-> FALSE, localMap |-> [p \in Pages |-> <<>>], sent |-> 0, session |-> 0]

\* Nothing is mounted, captured, queued or uploaded yet.
Closed ==
  /\ listOpen = FALSE
  /\ listLoading = FALSE
  /\ books = FALSE
  /\ userProgress = NoProgress
  /\ booksPending = FALSE
  /\ progressPending = FALSE
  /\ listOp = "none"
  /\ listVisits = 0
  /\ pendingSubmits = <<>>
  /\ overlap = NoOverlap
  /\ mounted = FALSE
  /\ loading = FALSE
  /\ currentPage = 1
  /\ progress = NoProgress
  /\ timersByPage = [p \in Pages |-> Undef]
  /\ recordedByPage = [p \in Pages |-> 0]
  /\ cappedByPage = [p \in Pages |-> FALSE]
  /\ exceededPages = [p \in Pages |-> FALSE]
  /\ lifelineUsed = FALSE
  /\ recordingsByPage = [p \in Pages |-> <<>>]
  /\ isUploading = FALSE
  /\ uploadProgress = 0
  /\ confirmVisible = FALSE
  /\ timeLimitVisible = FALSE
  /\ intervalTimers = [p \in Pages |-> Undef]
  /\ flow = "idle"
  /\ localMap = [p \in Pages |-> <<>>]
  /\ uploadedSegments = 0
  /\ currentSession = NoSession
  /\ nextPath = 1
  /\ remoteAudio = {}
  /\ alert = "none"
  /\ lastOp = "none"
  /\ appended = {}
  /\ reported = <<>>
  /\ overlapped = FALSE
  /\ lifelineAt = 0
  /\ capturedByPage = [p \in Pages |-> 0]
  /\ started = {}
  /\ stopped = {}
  /\ uploadLog = <<>>
  /\ sessions = 0
  /\ QuizClosed

\* A book of either category that was just started from the book list, or
\* an intensive book with a record written before caps were persisted.
\* Store, microphone and remote storage never fail.
Init ==
  /\ category \in {"intensive", "extensive"}
  /\ bookPages \in 1..MaxPages
  /\ persisted \in {startReadingWithBook}
        \cup (IF category = "intensive" /\ bookPages >= 2 THEN {LegacyProgress} ELSE {})
  /\ faultsLeft = 0
  /\ Closed
  /\ stickers = <<>>
  /\ micDenied = FALSE

\* A one-page book of either category, just started, in which store,
\* microphone or remote storage fail during up to MaxFaults handlers.
FaultInit ==
  /\ category \in {"intensive", "extensive"}
  /\ bookPages = 1
  /\ persisted = startReadingWithBook
  /\ faultsLeft = MaxFaults
  /\ Closed
  /\ stickers = <<>>
  /\ micDenied = FALSE

\* The reader is opened: the component mounts with its initial state and
\* loadProgress starts waiting for the store.
Mount ==
  /\ ~mounted
  /\ sessions < MaxSessions
  /\ Becomes([Cur EXCEPT !.mounted = TRUE, !.loading = TRUE, !.sessions = @ + 1,
                         !.lastOp = "mount"])

\* getBookProgress answers and loadProgress seeds the component.
LoadProgress ==
  /\ mounted /\ loading
  /\ \E e \in EnvsNow :
       Step(loadProgress([Cur EXCEPT !.loading = FALSE], e),"loadProgress", e)

\* The interval fires n times in a row, up to the next mark of the page.
\* The stopwatch is followed between handlers: loadProgress, an upload batch
\* and the alert after it are taken to end within the running second.
Tick ==
  /\ mounted /\ ~loading /\ flow = "idle"
  /\ \E e \in EnvsNow :
       LET n == NextMark(category, Timer(Cur, currentPage)) - Timer(Cur, currentPage)
       IN /\ n >= 1
          /\ Quiet(Cur, n)
          /\ Step(tick(quietTicks(Cur, n), e),"tick", e)

\* The Next button; the handler repeats the button's own dwell check.
NextPage ==
  /\ UiFree
  /\ \E e \in EnvsNow : Step(handleNextPage(Cur, e),"next", e)

PreviousPage ==
  /\ UiFree
  /\ \E e \in EnvsNow : Step(handlePreviousPage(Cur, e),"previous", e)

\* hardwareBackPress (refused while uploading).
BackPress ==
  /\ mounted /\ ~isUploading /\ ~confirmVisible /\ ~timeLimitVisible
  /\ flow = "idle"
  /\ \E e \in EnvsNow : Step(handleBackPress(Cur, e),"back", e)

\* The header Back button: onBack, nothing else.
HeaderBack ==
  /\ UiFree
  /\ \E e \in EnvsNow : Step(unmount(Cur), "headerBack", e)

\* The header Submit button.
SubmitInProgress ==
  /\ UiFree
  /\ \E e \in EnvsNow : Step(handleSubmitInProgress(Cur, e),"submit", e)

\* The Complete button of the last page (disabled below the minimum dwell).
SubmitBook ==
  /\ UiFree
  /\ currentPage = getTotalPages(Cur)
  /\ Timer(Cur, currentPage) >= MIN_DWELL
  /\ \E e \in EnvsNow : Step(handleSubmitBook(Cur, e),"complete", e)

ConfirmClose ==
  /\ mounted /\ confirmVisible
  /\ \E e \in EnvsNow : Step([Cur EXCEPT !.confirmVisible = FALSE],"confirmClose", e)

ConfirmSubmitInProgress ==
  /\ mounted /\ confirmVisible
  /\ \E e \in EnvsNow : Step(onSubmitInProgress(Cur, e),"confirmSubmit", e)

ConfirmComplete ==
  /\ mounted /\ confirmVisible
  /\ \E e \in EnvsNow : Step(onCompleteBook(Cur, e),"confirmComplete", e)

\* uploadSegment returns for the next queued segment.
UploadSegment ==
  /\ mounted /\ isUploading
  /\ flow \in {"submit", "complete"}
  /\ \E outcome \in UploadOutcomes, e \in EnvsNow :
       Step(uploadStep(Cur, outcome, e),"upload", e)

\* OK on the Saved / Completed alert: onBack / onBookComplete.
AlertOk ==
  /\ mounted /\ flow \in {"alertSaved", "alertCompleted"}
  /\ \E e \in EnvsNow : Step(unmount(Cur), "alertOk", e)

\* OK on the time-limit notice: onBack.
TimeLimitClose ==
  /\ mounted /\ timeLimitVisible
  /\ \E e \in EnvsNow : Step(unmount(Cur), "timeLimitClose", e)

\* The app is sent to the background after some reading time.  The screen
\* subscribes to hardwareBackPress only: no application code runs.
Background ==
  /\ mounted /\ ~loading /\ lastOp = "tick"
  /\ Becomes([Cur EXCEPT !.lastOp = "background"])

Next ==
  \/ Mount
  \/ LoadProgress
  \/ Tick
  \/ NextPage
  \/ PreviousPage
  \/ BackPress
  \/ HeaderBack
  \/ SubmitInProgress
  \/ SubmitBook
  \/ ConfirmClose
  \/ ConfirmSubmitInProgress
  \/ ConfirmComplete
  \/ UploadSegment
  \/ AlertOk
  \/ TimeLimitClose
  \/ Background

Spec == Init /\ [][Next]_vars

FaultSpec == FaultInit /\ [][Next]_vars

\* A book of either category, just started, on a device whose user has
\* refused the microphone permission, or a one-page book on a device whose
\* user has granted it.  Store and remote storage never fail.
PermissionInit ==
  /\ category \in {"intensive", "extensive"}
  /\ micDenied \in BOOLEAN
  /\ bookPages \in (IF micDenied THEN 1..MaxPages ELSE {1})
  /\ persisted = startReadingWithBook
  /\ faultsLeft = 0
  /\ stickers = <<>>
  /\ Closed

PermissionSpec == PermissionInit /\ [][Next]_vars

\* A navigation during which the progress store rejects every write; the
\* microphone and the remote storage work.
StoreDown == [storeOk |-> FALSE, micOk |-> TRUE, remoteOk |-> TRUE, serial |-> TRUE]

StepStoreDown(s, op) ==
  LET s1 == Effects(s, StoreDown)
  IN /\ s1.nextPath <= MaxPaths + 1
     /\ Becomes([s1 EXCEPT !.lastOp = op])

NextPageStoreDown ==
  /\ UiFree
  /\ StepStoreDown(handleNextPage(Cur, StoreDown), "nextStoreDown")

PreviousPageStoreDown ==
  /\ UiFree
  /\ StepStoreDown(handlePreviousPage(Cur, StoreDown), "previousStoreDown")

\* A two-page extensive book, just started; the store may be out of reach
\* during any Next or Previous, and only then.
NavFaultInit ==
  /\ category = "extensive"
  /\ bookPages = 2
  /\ persisted = startReadingWithBook
  /\ faultsLeft = 0
  /\ stickers = <<>>
  /\ Closed
  /\ micDenied = FALSE

NavFaultNext ==
  \/ Next
  \/ NextPageStoreDown
  \/ PreviousPageStoreDown

NavFaultSpec == NavFaultInit /\ [][NavFaultNext]_vars

\* ---------------------------------------------------------------------
\* The header Submit button with the store's answer as a step of its own:
\* handleSubmitInProgress waits for finalizePageTime before
\* handleMandatoryUpload sets isUploading, and the button is disabled by
\* isUploading only.
\* ---------------------------------------------------------------------

\* The render a pressed handler has closed over.
Closure(s) ==
  [session |-> s.sessions, page |-> s.currentPage,
   recordingsByPage |-> s.recordingsByPage, timersByPage |-> s.timersByPage]

\* Install the state a handler resumed by the store leaves behind.
StepResumed(s, op, e, pending, batch) ==
  LET s1 == Effects(s, e)
  IN /\ s1.nextPath <= MaxPaths + 1
     /\ Installs([s1 EXCEPT !.lastOp = op])
     /\ pendingSubmits' = pending
     /\ overlap' = batch
     /\ UNCHANGED micDenied
     /\ UNCHANGED listVars
     /\ UNCHANGED quizVars

\* What follows handleMandatoryUpload in handleSubmitInProgress.
savedAlert(s, e) == [submitBook(s, e) EXCEPT !.alert = "Saved"]

\* handleMandatoryUpload of a handler that finds another one past its
\* checkpoint: the state it leaves, and the batch it has begun.
beginOverlap(s, h, e) ==
  LET s1 == [s EXCEPT !.isUploading = TRUE, !.uploadProgress = 0,
                      !.reported = Append(@, 0)]
      currentFilePath == stopRecordingPath(s1)
      s2 == stopCurrentRecording(s1)
      map == buildLocalMap(h.recordingsByPage, h.page, currentFilePath)
  IN IF pagesToUpload(map) = {}
       THEN [state |-> savedAlert([s2 EXCEPT !.isUploading = FALSE], e),
             batch |-> NoOverlap]
       ELSE [state |-> s2,
             batch |-> [running |-> TRUE, localMap |-> map, sent |-> 0,
                        session |-> s.sessions]]

\* The Submit button is pressed: handleSubmitInProgress calls
\* finalizePageTime, which waits for updateBookProgress.
SubmitPressed ==
  /\ UiFree
  /\ Len(pendingSubmits) < MaxPending
  /\ pendingSubmits' = Append(pendingSubmits, Closure(Cur))
  /\ Installs([Cur EXCEPT !.lastOp = "submitPressed"])
  /\ UNCHANGED <<micDenied, overlap>>
  /\ UNCHANGED listVars
  /\ UNCHANGED quizVars

\* The store has written the checkpoint of the oldest waiting handler:
\* finalizePageTime returns and handleMandatoryUpload begins.
CheckpointStored ==
  /\ mounted
  /\ pendingSubmits # <<>>
  /\ Head(pendingSubmits).session = sessions
  /\ \E e \in {x \in EnvsNow : ~Fault(x)} :
       LET h == Head(pendingSubmits)
           f == [finalizePageTime([Cur EXCEPT !.timersByPage = h.timersByPage],
                                  h.page, e)
                   EXCEPT !.timersByPage = timersByPage]
           g == IF e.serial THEN Effects(f, e) ELSE f
           first == startBatch(g, h.recordingsByPage, "submit", e)
           second == beginOverlap(g, h, e)
       IN IF flow = "idle" /\ ~overlap.running
            THEN StepResumed(first, "submitStored", e, Tail(pendingSubmits), overlap)
            ELSE StepResumed(second.state, "submitStoredAgain", e,
                             Tail(pendingSubmits), second.batch)

\* The reader was left while a handler waited for the store: what the
\* handler does to the component that is gone is not followed.
HandlerAbandoned ==
  /\ pendingSubmits # <<>>
  /\ ~mounted \/ Head(pendingSubmits).session # sessions
  /\ pendingSubmits' = Tail(pendingSubmits)
  /\ Installs([Cur EXCEPT !.lastOp = "abandoned"])
  /\ UNCHANGED <<micDenied, overlap>>
  /\ UNCHANGED listVars
  /\ UNCHANGED quizVars

BatchAbandoned ==
  /\ overlap.running
  /\ ~mounted \/ overlap.session # sessions
  /\ overlap' = NoOverlap
  /\ Installs([Cur EXCEPT !.lastOp = "abandoned"])
  /\ UNCHANGED <<micDenied, pendingSubmits>>
  /\ UNCHANGED listVars
  /\ UNCHANGED quizVars

\* uploadSegment returns for the next segment of the second batch.
OverlapUpload ==
  /\ mounted
  /\ overlap.running
  /\ overlap.session = sessions
  /\ \E outcome \in UploadOutcomes, e \in {x \in EnvsNow : ~Fault(x)} :
       LET order == uploadOrder(overlap.localMap)
           seg == order[overlap.sent + 1]
           result == uploadSegment(Cur, seg, outcome)
           calls == result.onProgress
           shown == [i \in 1..Len(calls) |->
                       perFileUpdater(overlap.sent, Len(order), calls[i])]
           during == [result.state EXCEPT !.reported = @ \o shown,
                                          !.uploadProgress = IF shown = <<>> THEN @
                                                             ELSE shown[Len(shown)]]
           sent == [during EXCEPT !.uploadLog = Append(@, seg)]
       IN IF ~result.success
            THEN StepResumed(savedAlert(uploadFailed(during), e), "uploadAgain", e,
                             pendingSubmits, NoOverlap)
          ELSE IF overlap.sent + 1 = Len(order)
            THEN StepResumed(
                   savedAlert([sent EXCEPT !.uploadProgress = 100,
                                           !.reported = Append(@, 100),
                                           !.isUploading = FALSE,
                                           !.recordingsByPage = [p \in Pages |-> <<>>]], e),
                   "uploadAgain", e, pendingSubmits, NoOverlap)
          ELSE StepResumed(sent, "uploadAgain", e, pendingSubmits,
                           [overlap EXCEPT !.sent = @ + 1])

\* The first batch goes on after the second one has set isUploading back.
UploadSegmentUnshown ==
  /\ mounted /\ ~isUploading
  /\ flow \in {"submit", "complete"}
  /\ \E outcome \in UploadOutcomes, e \in EnvsNow :
       Step(uploadStep(Cur, outcome, e), "upload", e)

\* A one-page extensive book, just started; store, microphone and remote
\* storage never fail.
RaceInit ==
  /\ category = "extensive"
  /\ bookPages = 1
  /\ persisted = startReadingWithBook
  /\ faultsLeft = 0
  /\ stickers = <<>>
  /\ Closed
  /\ micDenied = FALSE

\* The interval, followed while no handler waits for the store: like
\* loadProgress, the store's answer is taken to arrive within the running
\* second.
TickSettled ==
  /\ pendingSubmits = <<>>
  /\ Tick

\* The reader with the header Submit button in two steps (SubmitPressed,
\* CheckpointStored) in place of SubmitInProgress.
RaceNext ==
  \/ Mount
  \/ LoadProgress
  \/ TickSettled
  \/ NextPage
  \/ PreviousPage
  \/ BackPress
  \/ HeaderBack
  \/ SubmitBook
  \/ ConfirmClose
  \/ ConfirmSubmitInProgress
  \/ ConfirmComplete
  \/ UploadSegment
  \/ AlertOk
  \/ TimeLimitClose
  \/ Background
  \/ SubmitPressed
  \/ CheckpointStored
  \/ HandlerAbandoned
  \/ BatchAbandoned
  \/ OverlapUpload
  \/ UploadSegmentUnshown

RaceSpec == RaceInit /\ [][RaceNext]_vars

\* ---------------------------------------------------------------------
\* The book list.  BookListScreen reads the user's progress records and
\* creates the record of a book that is opened for the first time; its
\* steps leave the reader and the quiz as they are.
\* ---------------------------------------------------------------------

\* Everything but the progress store and the list.
besideList ==
  <<category, bookPages, mounted, currentPage, progress, timersByPage,
    recordedByPage, cappedByPage, exceededPages, lifelineUsed,
    recordingsByPage, isUploading, uploadProgress, confirmVisible,
    timeLimitVisible, intervalTimers, flow, localMap, uploadedSegments,
    currentSession, nextPath, remoteAudio, alert, lastOp,
    appended, lifelineAt, reported, overlapped, capturedByPage,
    started, stopped, uploadLog, faultsLeft, sessions, loading, micDenied,
    pendingSubmits, overlap, quizVars>>

\* The screen mounts: loadBooks and loadUserProgress are called.
OpenBookList ==
  /\ ~listOpen /\ ~mounted /\ ~quizOpen
  /\ listVisits < MaxListVisits
  /\ listOpen' = TRUE
  /\ listLoading' = TRUE
  /\ books' = FALSE
  /\ userProgress' = NoProgress
  /\ booksPending' = TRUE
  /\ progressPending' = TRUE
  /\ listOp' = "open"
  /\ listVisits' = listVisits + 1
  /\ UNCHANGED <<persisted, besideList>>

\* loadBooks: getBooks answers (or throws); either way loading ends.
BooksLoaded ==
  /\ listOpen /\ booksPending
  /\ \E ok \in BOOLEAN :
       /\ books' = ok
       /\ listLoading' = FALSE
       /\ booksPending' = FALSE
       /\ listOp' = "loadBooks"
  /\ UNCHANGED <<listOpen, userProgress, progressPending, listVisits>>
  /\ UNCHANGED <<persisted, besideList>>

\* loadUserProgress: getUserBookProgress answers with the stored records,
\* or with [] when the query fails.
ProgressLoaded ==
  /\ listOpen /\ progressPending
  /\ \E ok \in BOOLEAN :
       /\ userProgress' = IF ok THEN persisted ELSE NoProgress
       /\ progressPending' = FALSE
       /\ listOp' = "loadUserProgress"
  /\ UNCHANGED <<listOpen, listLoading, books, booksPending, listVisits>>
  /\ UNCHANGED <<persisted, besideList>>

\* handleBookPress: the record it leaves in the store.
handleBookPress(found, stored) ==
  IF found.present THEN stored
  ELSE updateBookProgress([persisted |-> stored], startReadingWithBook, AllOk).persisted

\* A book of the list is tapped; onBookSelect leaves the list.
BookPress ==
  /\ listOpen /\ ~listLoading /\ books
  /\ persisted' = handleBookPress(userProgress, persisted)
  /\ userProgress' = IF userProgress.present THEN userProgress ELSE startReadingWithBook
  /\ listOpen' = FALSE
  /\ listOp' = "bookPress"
  /\ UNCHANGED <<listLoading, books, booksPending, progressPending, listVisits>>
  /\ UNCHANGED besideList

\* Back from the list.
LeaveBookList ==
  /\ listOpen
  /\ listOpen' = FALSE
  /\ listOp' = "back"
  /\ UNCHANGED <<listLoading, books, userProgress, booksPending, progressPending,
                 listVisits>>
  /\ UNCHANGED <<persisted, besideList>>

\* The records the store can hold for (user, book) when the list opens:
\* none, a fresh one, and the record a reader leaves that was closed on
\* page p after two minutes on each page up to p.
StoredRecords ==
  LET ReadRecord(p, submitted, completed) ==
        [present |-> TRUE, currentPage |-> p, isCompleted |-> completed,
         isSubmitted |-> submitted, lifelineUsed |-> FALSE,
         pageTimers |-> [q \in Pages |->
            IF q <= p THEN [present |-> TRUE, totalTime |-> MIN_DWELL,
                            rec |-> NoRec, isCapped |-> FALSE]
            ELSE NoEntry]]
  IN {NoProgress, startReadingWithBook}
       \cup {ReadRecord(p, sub, FALSE) : p \in Pages, sub \in BOOLEAN}
       \cup {ReadRecord(MaxPages, FALSE, TRUE)}

ListInit ==
  /\ category \in {"intensive", "extensive"}
  /\ bookPages = MaxPages
  /\ persisted \in StoredRecords
  /\ faultsLeft = 0
  /\ stickers = <<>>
  /\ Closed
  /\ micDenied = FALSE

ListNext ==
  \/ OpenBookList
  \/ BooksLoaded
  \/ ProgressLoaded
  \/ BookPress
  \/ LeaveBookList

ListSpec == ListInit /\ [][ListNext]_vars

\* ---------------------------------------------------------------------
\* The quiz.  QuizScreen is a second screen of the same application: its
\* steps leave the reader as it is.
\* ---------------------------------------------------------------------
Options == 0..1

\* `sticker_${book.id}`, and a sticker earned with another book.
BookSticker == "sticker_book"
OtherSticker == "sticker_other"

\* A setter of a component that was unmounted, or of an earlier opening, does
\* nothing.
Live(session) == quizOpen /\ session = quizSessions

\* completeQuiz: correctAnswers, the filter over finalAnswers.
RECURSIVE correctAnswers(_)
correctAnswers(finalAnswers) ==
  IF finalAnswers = <<>> THEN 0
  ELSE (IF Head(finalAnswers).isCorrect THEN 1 ELSE 0)
         + correctAnswers(Tail(finalAnswers))

\* completeQuiz up to its first await: the result is built, quizCompleted is
\* set and saveQuizResult is called.
completeQuiz(finalAnswers, totalQuestions, session) ==
  LET score == correctAnswers(finalAnswers)
      passingScore == totalQuestions
      passed == score >= passingScore
  IN /\ Len(completions) < MaxCalls
     /\ quizCompleted' = IF Live(session) THEN TRUE ELSE quizCompleted
     /\ completions' = Append(completions,
          [phase |-> "save", score |-> score, totalQuestions |-> totalQuestions,
           passed |-> passed, updated |-> <<>>, wrote |-> FALSE])

\* awardSticker, given the list getDoc returned: whether it writes, and the
\* list it writes.
awardSticker_NoLookup(list, sticker) ==
  [write |-> TRUE, updated |-> Append(list, sticker)]

awardSticker(list, sticker) ==
  LET already == \E i \in 1..Len(list) : list[i] = sticker
  IN IF already THEN [write |-> FALSE, updated |-> list]
     ELSE [write |-> TRUE, updated |-> Append(list, sticker)]

\* The 1200 ms callback of a correct answer, with the index, the number of
\* questions and the answer log its closure holds.
advanceTimeout_FromCurrentIndex(t) ==
  /\ showCongrats' = IF Live(t.session) THEN FALSE ELSE showCongrats
  /\ IF currentQuestionIndex < t.totalQuestions - 1
     THEN /\ currentQuestionIndex' =
               IF Live(t.session) THEN currentQuestionIndex + 1
               ELSE currentQuestionIndex
          /\ selectedAnswer' = IF Live(t.session) THEN NoSelection ELSE selectedAnswer
          /\ UNCHANGED <<quizCompleted, completions>>
     ELSE /\ completeQuiz(t.answers, t.totalQuestions, t.session)
          /\ UNCHANGED <<currentQuestionIndex, selectedAnswer>>

advanceTimeout(t) ==
  /\ showCongrats' = IF Live(t.session) THEN FALSE ELSE showCongrats
  /\ IF t.index < t.totalQuestions - 1
     THEN /\ currentQuestionIndex' =
               IF Live(t.session) THEN t.index + 1 ELSE currentQuestionIndex
          /\ selectedAnswer' = IF Live(t.session) THEN NoSelection ELSE selectedAnswer
          /\ UNCHANGED <<quizCompleted, completions>>
     ELSE /\ completeQuiz(t.answers, t.totalQuestions, t.session)
          /\ UNCHANGED <<currentQuestionIndex, selectedAnswer>>

\* handleAnswerSelect: the answer is logged; a correct one shows the
\* congratulation and arms the 1200 ms callback, an incorrect one shows
\* 'Try again' and arms the 500 ms callback that clears the selection.
handleAnswerSelect(answerIndex) ==
  LET currentQuestion == questions[currentQuestionIndex + 1]
      isCorrect == answerIndex = currentQuestion
      newUserAnswers == Append(userAnswers,
         [questionId |-> currentQuestionIndex + 1,
          selectedAnswer |-> answerIndex, isCorrect |-> isCorrect])
  IN /\ selectedAnswer' = answerIndex
     /\ userAnswers' = newUserAnswers
     /\ IF isCorrect
        THEN /\ showCongrats' = TRUE
             /\ advanceTimers' = Append(advanceTimers,
                  [index |-> currentQuestionIndex,
                   totalQuestions |-> Len(questions),
                   answers |-> newUserAnswers, session |-> quizSessions])
             /\ quizAlert' = "none"
             /\ UNCHANGED clearTimers
        ELSE /\ quizAlert' = "Try again"
             /\ clearTimers' = Append(clearTimers, quizSessions)
             /\ UNCHANGED <<showCongrats, advanceTimers>>

\* The quiz is opened from the book's detail screen: the component mounts
\* and loadQuestions starts waiting for the store.
OpenQuiz ==
  /\ ~quizOpen
  /\ quizSessions < MaxQuizSessions
  /\ quizOpen' = TRUE
  /\ quizLoading' = TRUE
  /\ questions' = <<>>
  /\ currentQuestionIndex' = 0
  /\ userAnswers' = <<>>
  /\ selectedAnswer' = NoSelection
  /\ showCongrats' = FALSE
  /\ quizCompleted' = FALSE
  /\ quizSessions' = quizSessions + 1
  /\ quizAlert' = "none"
  /\ quizOp' = "open"
  /\ UNCHANGED <<advanceTimers, clearTimers, completions, stickers, quizResult>>
  /\ UNCHANGED readerVars

\* loadQuestions: getQuizForBook answers with the questions of the book, or
\* with none ('Error', onBack).
LoadQuestions ==
  /\ quizOpen /\ quizLoading
  /\ \E n \in 0..MaxQuestions :
       \E q \in [1..n -> Options] :
         /\ questions' = q
         /\ quizOpen' = (n > 0)
         /\ quizAlert' = IF n > 0 THEN "none" ELSE "Error"
  /\ quizLoading' = FALSE
  /\ quizOp' = "loadQuestions"
  /\ UNCHANGED <<currentQuestionIndex, userAnswers, selectedAnswer, showCongrats,
                 quizCompleted, advanceTimers, clearTimers, completions,
                 stickers, quizResult, quizSessions>>
  /\ UNCHANGED readerVars

\* An alert of completeQuiz is on display: the screen takes no taps.
CompletionAlert == \E i \in 1..Len(completions) : completions[i].phase = "alert"

QuizUiFree == quizOpen /\ ~quizLoading /\ ~CompletionAlert

\* An option of the current question is tapped.  The options take taps
\* while the congratulation is shown and after the quiz has completed.
AnswerSelect ==
  /\ QuizUiFree
  /\ Len(userAnswers) < MaxAnswers
  /\ \E answerIndex \in Options : handleAnswerSelect(answerIndex)
  /\ quizOp' = "answer"
  /\ UNCHANGED <<quizOpen, quizLoading, questions, currentQuestionIndex,
                 quizCompleted, completions, stickers, quizResult, quizSessions>>
  /\ UNCHANGED readerVars

\* The oldest 1200 ms callback fires.
AdvanceTimeout ==
  /\ advanceTimers # <<>>
  /\ advanceTimeout(Head(advanceTimers))
  /\ advanceTimers' = Tail(advanceTimers)
  /\ quizAlert' = "none"
  /\ quizOp' = "advance"
  /\ UNCHANGED <<quizOpen, quizLoading, questions, userAnswers, clearTimers,
                 stickers, quizResult, quizSessions>>
  /\ UNCHANGED readerVars

\* The oldest 500 ms callback fires.
ClearTimeout ==
  /\ clearTimers # <<>>
  /\ selectedAnswer' = IF Live(Head(clearTimers)) THEN NoSelection ELSE selectedAnswer
  /\ clearTimers' = Tail(clearTimers)
  /\ quizAlert' = "none"
  /\ quizOp' = "clear"
  /\ UNCHANGED <<quizOpen, quizLoading, questions, currentQuestionIndex,
                 userAnswers, showCongrats, quizCompleted, advanceTimers,
                 completions, stickers, quizResult, quizSessions>>
  /\ UNCHANGED readerVars

\* saveQuizResult of run i returns; a passed run goes on to awardSticker.
SaveQuizResult ==
  /\ \E i \in 1..Len(completions) :
       LET c == completions[i] IN
       /\ c.phase = "save"
       /\ quizResult' = [present |-> TRUE, score |-> c.score,
                         totalQuestions |-> c.totalQuestions, passed |-> c.passed]
       /\ completions' = [completions EXCEPT
                            ![i].phase = IF c.passed THEN "read" ELSE "alert"]
       /\ quizAlert' = IF c.passed THEN "none" ELSE "Good Effort"
  /\ quizOp' = "saveQuizResult"
  /\ UNCHANGED <<quizOpen, quizLoading, questions, currentQuestionIndex,
                 userAnswers, selectedAnswer, showCongrats, quizCompleted,
                 advanceTimers, clearTimers, stickers, quizSessions>>
  /\ UNCHANGED readerVars

\* awardSticker of run i: getDoc returns the user document.
AwardRead ==
  /\ \E i \in 1..Len(completions) :
       LET c == completions[i]
           a == awardSticker(stickers, BookSticker)
       IN /\ c.phase = "read"
          /\ completions' = [completions EXCEPT
                               ![i].phase = IF a.write THEN "write" ELSE "alert",
                               ![i].updated = a.updated]
          /\ quizAlert' = IF a.write THEN "none" ELSE "Congratulations"
  /\ quizOp' = "awardRead"
  /\ UNCHANGED <<quizOpen, quizLoading, questions, currentQuestionIndex,
                 userAnswers, selectedAnswer, showCongrats, quizCompleted,
                 advanceTimers, clearTimers, stickers, quizResult, quizSessions>>
  /\ UNCHANGED readerVars

\* awardSticker of run i: setDoc replaces the stickers field (merge keeps the
\* other fields of the document).
AwardWrite ==
  /\ \E i \in 1..Len(completions) :
       /\ completions[i].phase = "write"
       /\ stickers' = completions[i].updated
       /\ completions' = [completions EXCEPT ![i].phase = "alert",
                                              ![i].wrote = TRUE]
  /\ quizAlert' = "Congratulations"
  /\ quizOp' = "awardWrite"
  /\ UNCHANGED <<quizOpen, quizLoading, questions, currentQuestionIndex,
                 userAnswers, selectedAnswer, showCongrats, quizCompleted,
                 advanceTimers, clearTimers, quizResult, quizSessions>>
  /\ UNCHANGED readerVars

\* Continue on the alert of run i: onQuizComplete, which leaves the quiz.
QuizContinue ==
  /\ \E i \in 1..Len(completions) :
       /\ completions[i].phase = "alert"
       /\ completions' = [completions EXCEPT ![i].phase = "done"]
  /\ quizOpen' = FALSE
  /\ quizAlert' = "none"
  /\ quizOp' = "continue"
  /\ UNCHANGED <<quizLoading, questions, currentQuestionIndex, userAnswers,
                 selectedAnswer, showCongrats, quizCompleted, advanceTimers,
                 clearTimers, stickers, quizResult, quizSessions>>
  /\ UNCHANGED readerVars

\* The header Back button of the quiz: onBack.
QuizBack ==
  /\ QuizUiFree
  /\ quizOpen' = FALSE
  /\ quizAlert' = "none"
  /\ quizOp' = "quizBack"
  /\ UNCHANGED <<quizLoading, questions, currentQuestionIndex, userAnswers,
                 selectedAnswer, showCongrats, quizCompleted, advanceTimers,
                 clearTimers, completions, stickers, quizResult, quizSessions>>
  /\ UNCHANGED readerVars

\* A submitted book whose quiz is available; the user has no sticker yet, or
\* the sticker of another book.  The store answers every request.
QuizInit ==
  /\ category = "intensive"
  /\ bookPages = 1
  /\ persisted = [startReadingWithBook EXCEPT !.isSubmitted = TRUE]
  /\ faultsLeft = 0
  /\ stickers \in {<<>>, <<OtherSticker>>}
  /\ Closed
  /\ micDenied = FALSE

QuizNext ==
  \/ OpenQuiz
  \/ LoadQuestions
  \/ AnswerSelect
  \/ AdvanceTimeout
  \/ ClearTimeout
  \/ SaveQuizResult
  \/ AwardRead
  \/ AwardWrite
  \/ QuizContinue
  \/ QuizBack

QuizSpec == QuizInit /\ [][QuizNext]_vars

\* ------------------------------------------------------------------ claims

\* The segments a batch has queued, as <<page, path>> pairs.
Queued(map) == UNION {{<<p, map[p][i]>> : i \in 1..Len(map[p])} : p \in Pages}

\* C1: a step sets isSubmitted or isCompleted in the stored record only when
\* every segment queued for upload has been uploaded by the batch.
C1_FlagOnlyAfterAllUploads ==
  [][ ((persisted'.isSubmitted /\ ~persisted.isSubmitted)
        \/ (persisted'.isCompleted /\ ~persisted.isCompleted))
      => Queued(localMap') \subseteq remoteAudio' ]_vars

\* The page has recorded its ten minutes: in memory, or in the stored record.
Reached600(p) ==
  \/ mounted /\ recordedByPage[p] >= INT_CAP
  \/ persisted.pageTimers[p].present /\ persisted.pageTimers[p].rec >= INT_CAP

\* C2: once a page of an intensive book has recorded 600 s it stays so, no
\* capture is started on it again and no segment is appended to it, in the
\* same reader opening and in later ones.
C2_CapIsPermanent ==
  [][ \A p \in Pages :
        (category = "intensive" /\ Reached600(p))
          => /\ Reached600(p)'
             /\ p \notin started'
             /\ ~(currentSession'.isRecording /\ currentSession'.page = p)
             /\ Len(recordingsByPage'[p]) <= Len(recordingsByPage[p]) ]_vars

\* The interval callback takes the current page's stopwatch to 420 s.
ReachesLimit ==
  /\ category = "extensive" /\ mounted /\ ~loading
  /\ Timer(Cur, currentPage) = EXT_LIMIT - 1
  /\ lastOp' = "tick"

\* The other page of a two-page book.
Other(p) == 3 - p

\* C3: two-page extensive book, no page at 420 s yet and the lifeline unused:
\* the page that reaches 420 s has its capture stopped and its segment kept,
\* is capped, lifelineUsed is set locally and in the store, and the reader
\* stays on the page with nothing reset.
C3_FirstExceedTakesLifeline ==
  [][ ( /\ ReachesLimit /\ bookPages = 2
        /\ Timer(Cur, Other(currentPage)) < EXT_LIMIT
        /\ ~lifelineUsed /\ ~persisted.lifelineUsed )
      => /\ ~currentSession'.isRecording
         /\ currentSession.isRecording =>
              recordingsByPage'[currentPage] =
                Append(recordingsByPage[currentPage], currentSession.path)
         /\ cappedByPage'[currentPage]
         /\ lifelineUsed' /\ persisted'.lifelineUsed
         /\ mounted' /\ currentPage' = currentPage
         /\ timeLimitVisible' = timeLimitVisible
         /\ timersByPage' = [timersByPage EXCEPT ![currentPage] = EXT_LIMIT]
         /\ persisted'.pageTimers[currentPage].totalTime = EXT_LIMIT
         /\ \A p \in Pages :
              persisted.pageTimers[p].present
                => /\ persisted'.pageTimers[p].present
                   /\ persisted'.pageTimers[p].totalTime
                        >= persisted.pageTimers[p].totalTime
         /\ remoteAudio' = remoteAudio ]_vars

C3_Witness ==
  /\ category = "extensive" /\ bookPages = 2 /\ mounted /\ lastOp = "tick"
  /\ timersByPage[currentPage] = EXT_LIMIT
  /\ Timer(Cur, Other(currentPage)) < EXT_LIMIT
  /\ lifelineUsed /\ persisted.lifelineUsed
  /\ cappedByPage[currentPage]
  /\ ~currentSession.isRecording
  /\ Len(recordingsByPage[currentPage]) >= 1

\* The state a full reset leaves behind: stored timers, lifeline and page
\* wiped, the remote audio deleted, the local per-page state cleared, the
\* capture stopped and the time-limit notice on display.
AfterReset ==
  /\ persisted'.pageTimers = NoTimers
  /\ ~persisted'.lifelineUsed
  /\ persisted'.currentPage = 1
  /\ remoteAudio' = {}
  /\ timersByPage' = [p \in Pages |-> Undef]
  /\ recordedByPage' = [p \in Pages |-> 0]
  /\ exceededPages' = [p \in Pages |-> FALSE]
  /\ ~lifelineUsed'
  /\ ~currentSession'.isRecording
  /\ timeLimitVisible'

\* C4: two-page extensive book: when a page reaches 420 s and the other page
\* is already at 420 s or more, the full reset runs, whether the other page
\* got there in this reader opening or in an earlier one.
C4_SecondExceedResets ==
  [][ ( /\ ReachesLimit /\ bookPages = 2
        /\ Timer(Cur, Other(currentPage)) >= EXT_LIMIT )
      => AfterReset ]_vars

\* The lifeline went in the first opening, the reset came in the second.
C4_Witness ==
  /\ category = "extensive" /\ bookPages = 2 /\ mounted /\ lastOp = "tick"
  /\ sessions = 2 /\ lifelineAt = 1
  /\ timeLimitVisible
  /\ persisted.pageTimers = NoTimers /\ ~persisted.lifelineUsed
  /\ timersByPage = [p \in Pages |-> Undef]

\* C5: one-page extensive book: reaching 420 s runs the full reset at once,
\* and lifelineUsed is never true, locally or in the store.
C5_OnePageResetsAtOnce ==
  [][ (category = "extensive" /\ bookPages = 1)
      => /\ ~lifelineUsed' /\ ~persisted'.lifelineUsed
         /\ ReachesLimit => AfterReset ]_vars

C5_Witness ==
  /\ category = "extensive" /\ bookPages = 1 /\ mounted /\ lastOp = "tick"
  /\ timeLimitVisible
  /\ persisted.pageTimers = NoTimers /\ ~persisted.lifelineUsed
  /\ timersByPage = [p \in Pages |-> Undef]
  /\ ~currentSession.isRecording

\* C6: Next with the current page's stopwatch below 120 s is refused: page,
\* stopwatch, capture, segment map and stored record are as before.
C6_NextRefusedBelowDwell ==
  [][ ( /\ mounted /\ lastOp' = "next"
        /\ Timer(Cur, currentPage) < MIN_DWELL )
      => /\ alert' = "Please read a bit longer"
         /\ UNCHANGED <<currentPage, timersByPage, recordedByPage, cappedByPage,
                        currentSession, recordingsByPage, persisted, progress,
                        remoteAudio, mounted>> ]_vars

C6_Witness ==
  /\ mounted /\ lastOp = "next" /\ alert = "Please read a bit longer"
  /\ timersByPage[currentPage] = MIN_DWELL - 1
  /\ currentSession.isRecording /\ currentSession.page = currentPage

\* A stored page entry with 600 recorded seconds and no isCapped field.
LegacyCapped(p) ==
  /\ category = "intensive"
  /\ persisted.pageTimers[p].present
  /\ persisted.pageTimers[p].rec = INT_CAP
  /\ ~persisted.pageTimers[p].isCapped

C8_EveryStopAppends == mounted => stopped \subseteq appended

\* A step that runs the full extensive reset.
ResetStep == timeLimitVisible' /\ ~timeLimitVisible

\* C9: the stored totalTime of a page never decreases, except by the full
\* extensive reset.
C9_TotalTimeMonotone ==
  [][ \A p \in Pages :
        (persisted.pageTimers[p].present /\ ~ResetStep)
          => /\ persisted'.pageTimers[p].present
             /\ persisted'.pageTimers[p].totalTime
                  >= persisted.pageTimers[p].totalTime ]_vars

\* C10: a batch uploads its queue in ascending page order and, within a
\* page, in capture order; the queue is the segment map, and a batch that
\* went through has uploaded each queued segment once.
C10_UploadOrder ==
  /\ \A i, j \in 1..Len(uploadLog) :
       i < j => \/ uploadLog[i][1] < uploadLog[j][1]
                \/ uploadLog[i][1] = uploadLog[j][1]
                   /\ uploadLog[i][2] < uploadLog[j][2]
  /\ isUploading => /\ localMap = recordingsByPage
                    /\ {uploadLog[i] : i \in 1..Len(uploadLog)} \subseteq Queued(localMap)
  /\ (mounted /\ uploadProgress = 100)
       => /\ {uploadLog[i] : i \in 1..Len(uploadLog)} = Queued(localMap)
          /\ Len(uploadLog) = Cardinality(Queued(localMap))

\* A finished batch of three segments: two of page 1 (the second captured
\* after the one of page 2), one of page 2.
C10_Witness ==
  /\ mounted /\ uploadProgress = 100
  /\ Len(uploadLog) = 3
  /\ uploadLog[1][1] = 1 /\ uploadLog[2][1] = 1 /\ uploadLog[3][1] = 2
  /\ uploadLog[2][2] > uploadLog[3][2]

\* ---------------------------------------------------------------------------
\* C11  Within one upload batch the percentage passed to setUploadProgress
\* never decreases and stays within 0..100, and 100 is shown only when every
\* segment of the batch has been uploaded.
Uploaded == {uploadLog[i] : i \in 1..Len(uploadLog)}

ShownInBatch == IF isUploading THEN <<uploadProgress>> \o reported' ELSE reported'

FailedBatch == isUploading /\ ~isUploading' /\ Uploaded' # Queued(localMap')

C12_FailureKeepsQueue ==
  [][FailedBatch =>
       /\ uploadLog' = uploadLog
       /\ recordingsByPage' = recordingsByPage
       /\ Queued(localMap) \subseteq Queued(recordingsByPage')
       /\ Queued(localMap) \subseteq
            Queued(beginUpload(Cur', recordingsByPage', "submit").localMap)]_vars

\* A batch of two segments or more that failed after its first upload.
C12_Witness ==
  /\ mounted /\ ~isUploading /\ flow = "alertSaved"
  /\ Len(uploadLog) = 1
  /\ Cardinality(Queued(localMap)) >= 2
  /\ Queued(localMap) \subseteq Queued(recordingsByPage)

\* ---------------------------------------------------------------------------
\* C13  After a batch that failed part-way, the batch the next
\* handleMandatoryUpload builds holds the unsent segments only: none of the
\* segments the failed batch has uploaded is in it.
RetryBatch == Queued(beginUpload(Cur, recordingsByPage, "submit").localMap)

C13_RetrySkipsUploaded ==
  [][FailedBatch => RetryBatch' \cap Uploaded' = {}]_vars

\* ---------------------------------------------------------------------------
\* C14  Whenever the loaded reader is left by hardware Back or by the header
\* Back button, no capture is active afterwards and the progress store holds
\* the current page's timer as it stood when the button was pressed.
BackExit ==
  /\ mounted /\ ~loading /\ ~mounted'
  /\ lastOp' \in {"back", "headerBack"}

C14_BackExitCheckpoints ==
  [][BackExit =>
       /\ ~currentSession'.isRecording
       /\ persisted'.pageTimers[currentPage].present
       /\ persisted'.pageTimers[currentPage].totalTime = Timer(Cur, currentPage)]_vars

\* ---------------------------------------------------------------------------
\* C15  When the reader is left, every segment that was queued and has not
\* been uploaded is still in the segment map that the next opening of the
\* book, and so its next submit, works from.
Exit == mounted /\ ~mounted'

UnsentAtExit ==
  (Queued(recordingsByPage) \cup {<<a.page, a.path>> : a \in appended'})
    \ remoteAudio'

C15_UnsentSurviveExit ==
  [][Exit => UnsentAtExit \subseteq Queued(recordingsByPage')]_vars

\* ---------------------------------------------------------------------------
\* C16  When the app is sent to the background, the progress store holds the
\* current page's elapsed time afterwards.
C16_BackgroundCheckpoints ==
  [][lastOp' = "background" =>
       /\ persisted'.pageTimers[currentPage].present
       /\ persisted'.pageTimers[currentPage].totalTime = Timer(Cur, currentPage)]_vars

\* ---------------------------------------------------------------------------
\* C17  A start request that meets an active capture stops that capture
\* before it starts its own, also when the request overlaps with another
\* start request of the same step; so one capture at most is active.
PriorCapture == [page |-> currentSession.page, path |-> currentSession.path]

C17_StartStopsPrior ==
  [][/\ (currentSession.isRecording /\ started' # {}) => PriorCapture \in stopped'
     /\ ~overlapped']_vars

\* ---------------------------------------------------------------------------
\* C18  The book's remote audio is deleted, its stored progress wiped or the
\* time-limit notice raised only in an extensive book, in a step in which a
\* page's timer stands at 420 s or more: never in an intensive book, and not
\* in a step whose only news is a failing adapter.
FullReset ==
  \/ remoteAudio # {} /\ remoteAudio' = {}
  \/ persisted.pageTimers # NoTimers /\ persisted'.pageTimers = NoTimers
  \/ ResetStep

TimerAtLimit ==
  \/ lastOp' = "tick" /\ Timer(Cur, currentPage) + 1 >= EXT_LIMIT
  \/ \E p \in Pages : Timer(Cur, p) >= EXT_LIMIT
  \/ \E p \in Pages : persisted.pageTimers[p].totalTime >= EXT_LIMIT

C18_ResetOnlyAtLimit ==
  [][FullReset => category = "extensive" /\ TimerAtLimit]_vars

\* A full reset in a run in which an adapter has failed before.
C18_Witness ==
  /\ category = "extensive" /\ timeLimitVisible
  /\ remoteAudio = {} /\ persisted.pageTimers = NoTimers
  /\ faultsLeft < MaxFaults

\* ---------------------------------------------------------------------------
\* C19  A reset never gets as far as deleting the book's remote audio without
\* also wiping the stored timers and lifeline and the reader's own timers:
\* either the whole reset takes effect or the session is as before.
AudioDeleted == remoteAudio # {} /\ remoteAudio' = {}

C19_ResetAllOrNothing ==
  [][AudioDeleted =>
       /\ persisted'.pageTimers = NoTimers
       /\ ~persisted'.lifelineUsed
       /\ timersByPage' = [p \in Pages |-> Undef]
       /\ ~lifelineUsed']_vars

\* ---------------------------------------------------------------------------
\* C20  The checkpoint written when a page is left or the reader is exited
\* leaves the stored isSubmitted and isCompleted flags as they were.
CheckpointStep == mounted /\ ~loading /\ lastOp' \in {"next", "previous", "back"}

C20_CheckpointKeepsFlags ==
  [][CheckpointStep =>
       /\ persisted'.isSubmitted = persisted.isSubmitted
       /\ persisted'.isCompleted = persisted.isCompleted]_vars

\* ---------------------------------------------------------------------------
\* C21  In an intensive book no page ever has more than 600 seconds of
\* captured audio, counted over all visits and all openings of the reader.
C21_CapturedAtMost600 ==
  category = "intensive" => \A p \in Pages : capturedByPage[p] <= INT_CAP

\* ---------------------------------------------------------------------------
\* C22  Whenever a write stores recordedTotalSeconds in a page entry, the
\* stored value is at most the totalTime the entry has after the write.
RecWritten(p) ==
  /\ persisted'.pageTimers[p].rec # NoRec
  /\ persisted'.pageTimers[p].rec # persisted.pageTimers[p].rec

C22_RecordedAtMostTotal ==
  [][\A p \in Pages :
       RecWritten(p) => persisted'.pageTimers[p].rec <= persisted'.pageTimers[p].totalTime]_vars

\* ---------------------------------------------------------------------------
\* C23  Short of a full reset a cap is kept: a page capped in the loaded
\* reader is capped after every step that leaves the reader open, a stored
\* isCapped stays stored and is seeded on resume, and when the reader is left
\* the stored record is one from which the next loadProgress caps the page
\* again.
\* cappedByPage as loadProgress seeds it from the stored record of the next
\* state.
CappedOnResume ==
  loadProgress([Cur EXCEPT !.mounted = TRUE, !.loading = FALSE], AllOk).cappedByPage

C23_CapStays ==
  [][~FullReset =>
       \A p \in Pages :
         /\ (mounted /\ ~loading /\ cappedByPage[p] /\ mounted') => cappedByPage'[p]
         /\ persisted.pageTimers[p].isCapped => persisted'.pageTimers[p].isCapped
         /\ (lastOp' = "loadProgress" /\ persisted.pageTimers[p].isCapped)
               => cappedByPage'[p]
         /\ (Exit /\ ~loading /\ cappedByPage[p]) => CappedOnResume'[p]]_vars

\* ---------------------------------------------------------------------------
\* C24  The page on display and the stored currentPage are always within
\* 1..totalPages; Previous on page 1 and Next on the last page leave the
\* page where it is.
C24_PageInRange ==
  [][/\ mounted' => currentPage' \in 1..getTotalPages(Cur')
     /\ persisted'.currentPage \in 1..getTotalPages(Cur')
     /\ (lastOp' = "previous" /\ currentPage = 1) => currentPage' = 1
     /\ (lastOp' = "next" /\ currentPage = getTotalPages(Cur))
           => currentPage' = currentPage]_vars

\* Next was pressed on the only page of a book, past the minimum dwell.
C24_Witness ==
  /\ mounted /\ ~loading /\ bookPages = 1 /\ lastOp = "next"
  /\ Timer(Cur, currentPage) >= MIN_DWELL
  /\ currentPage = 1

\* ---------------------------------------------------------------------------
\* C25  Intensive: the interval callback that takes the current page's
\* recorded seconds to 600 stops the capture, marks the page capped and has
\* the store hold isCapped and recordedTotalSeconds = 600 for the page.
ReachesCap ==
  /\ category = "intensive" /\ lastOp' = "tick"
  /\ recordedByPage[currentPage] < INT_CAP
  /\ recordedByPage'[currentPage] = INT_CAP

C25_CapPersistedAtOnce ==
  [][ReachesCap =>
       /\ ~currentSession'.isRecording
       /\ cappedByPage'[currentPage]
       /\ persisted'.pageTimers[currentPage].present
       /\ persisted'.pageTimers[currentPage].isCapped
       /\ persisted'.pageTimers[currentPage].rec = INT_CAP]_vars

\* The state after such a callback on page 2.
C25_Witness ==
  /\ category = "intensive" /\ mounted /\ lastOp = "tick" /\ currentPage = 2
  /\ recordedByPage[2] = INT_CAP /\ cappedByPage[2]
  /\ ~currentSession.isRecording
  /\ persisted.pageTimers[2].isCapped /\ persisted.pageTimers[2].rec = INT_CAP
  /\ 2 \in {x.page : x \in stopped}

\* C26: once a run of completeQuiz with a perfect score has come back from
\* awardSticker, the sticker of the book is in the user's sticker list exactly
\* once, and it is never there twice, whether the runs of the completion
\* handler follow one another or their reads and writes overlap.
Occurrences(list, sticker) ==
  Cardinality({i \in 1..Len(list) : list[i] = sticker})

Awarded(i) == completions[i].passed /\ completions[i].phase \in {"alert", "done"}

TimersKept ==
  \A p \in Pages : timersByPage[p] # Undef => timersByPage'[p] = timersByPage[p]

C27_FailedCheckpointStillNavigates ==
  [][/\ (/\ lastOp' = "nextStoreDown"
          /\ Timer(Cur, currentPage) >= MIN_DWELL
          /\ currentPage < getTotalPages(Cur))
        => (currentPage' = currentPage + 1 /\ TimersKept)
     /\ (lastOp' = "previousStoreDown" /\ currentPage > 1)
        => (currentPage' = currentPage - 1 /\ TimersKept)]_vars

\* The reader came back to page 1 through a Previous whose checkpoint was
\* rejected, with the time read on both pages still in memory.
C27_Witness ==
  /\ lastOp = "previousStoreDown"
  /\ currentPage = 1
  /\ Timer(Cur, 1) >= MIN_DWELL
  /\ Timer(Cur, 2) > 0
  /\ persisted.pageTimers[2].present = FALSE

\* C28: on a device where capture cannot start, startRecording leaves no
\* capture active and changes neither the stored record, nor the local copy
\* of it, nor the page timers; every tick below the extensive time limit
\* still advances the timer of the open page, Next still moves to the following page after the minimum dwell,
\* and Submit still goes through to the stored isSubmitted flag.
StartRefused(s, page) ==
  \A e \in {x \in Envs : ~x.micOk} :
    LET r == startRecording(s, page, e)
    IN /\ ~r.currentSession.isRecording
       /\ r.started = {}
       /\ r.persisted = s.persisted
       /\ r.progress = s.progress
       /\ r.timersByPage = s.timersByPage

NextSegment == uploadOrder(localMap)[uploadedSegments + 1]

RangeOf(seq) == {seq[i] : i \in 1..Len(seq)}

LoggedAnswer(answerIndex) ==
  [questionId |-> currentQuestionIndex + 1, selectedAnswer |-> answerIndex,
   isCorrect |-> answerIndex = questions[currentQuestionIndex + 1]]

C30_CorrectAdvancesIncorrectStays ==
  [][/\ quizOp' = "answer" =>
          \E answerIndex \in Options :
            /\ userAnswers' = Append(userAnswers, LoggedAnswer(answerIndex))
            /\ currentQuestionIndex' = currentQuestionIndex
            /\ completions' = completions
            /\ IF LoggedAnswer(answerIndex).isCorrect
                 THEN /\ Len(advanceTimers') = Len(advanceTimers) + 1
                      /\ advanceTimers'[Len(advanceTimers')].index = currentQuestionIndex
                 ELSE advanceTimers' = advanceTimers
     /\ (quizOp' = "advance" /\ Live(Head(advanceTimers).session)) =>
          LET t == Head(advanceTimers)
          IN IF t.index < Len(questions) - 1
               THEN /\ currentQuestionIndex' = t.index + 1
                    /\ currentQuestionIndex' - currentQuestionIndex \in {0, 1}
                    /\ completions' = completions
               ELSE /\ currentQuestionIndex' = currentQuestionIndex
                    /\ Len(completions') = Len(completions) + 1
                    /\ quizCompleted'
     /\ quizOp' \notin {"advance", "open"} =>
          currentQuestionIndex' = currentQuestionIndex]_vars

\* The first question was answered wrongly and then correctly, and the
\* callback has moved the quiz to the second question.
C30_Witness ==
  /\ quizOpen /\ quizOp = "advance"
  /\ Len(questions) = 2
  /\ currentQuestionIndex = 1
  /\ Len(userAnswers) = 2
  /\ ~userAnswers[1].isCorrect /\ userAnswers[2].isCorrect
  /\ userAnswers[1].questionId = 1 /\ userAnswers[2].questionId = 1

\* ---------------------------------------------------------------------------
\* C31  The timer of a page counts the seconds the page was open: the ticks
\* of a step add their number to the timer of the open page and leave the
\* other timers alone (below the extensive limit, where the reset takes
\* over), a Next or Previous changes no timer held in memory, and the timers
\* a resume would seed after the reader is left are the timers it was left
\* with.
ResumedTimers ==
  loadProgress([Cur EXCEPT !.mounted = TRUE, !.loading = FALSE], AllOk).timersByPage

TicksOfStep == NextMark(category, Timer(Cur, currentPage)) - Timer(Cur, currentPage)

C31_TimerCountsOpenSeconds ==
  [][/\ (/\ lastOp' = "tick"
          /\ ~(category = "extensive" /\ Timer(Cur, currentPage) + TicksOfStep >= EXT_LIMIT))
        => /\ timersByPage'[currentPage] = Timer(Cur, currentPage) + TicksOfStep
           /\ \A p \in Pages : p # currentPage => timersByPage'[p] = timersByPage[p]
     /\ (lastOp' \in {"next", "previous"} /\ mounted /\ ~loading) => TimersKept
     /\ (mounted /\ ~loading /\ ~mounted' /\ ~FullReset)
        => \A p \in Pages :
             timersByPage[p] # Undef => ResumedTimers'[p] = timersByPage[p]]_vars

C34_NoCaptureFromSevenMinutes ==
  LET AfterTick(n) == Effects(tick([Cur EXCEPT !.bookPages = n], AllOk), AllOk)
  IN (category = "extensive" /\ mounted /\ ~loading /\ flow = "idle") =>
       /\ Timer(Cur, currentPage) >= EXT_LIMIT => ~currentSession.isRecording
       /\ \A n \in {bookPages, MaxPages + 1} :
            Timer(AfterTick(n), currentPage) >= EXT_LIMIT
              => ~AfterTick(n).currentSession.isRecording

\* C35: after a completed Next or Previous from page p to page q the stored
\* currentPage is q, the page a later opening of the book resumes on.
C35_StoredPageFollowsNavigation ==
  [][(lastOp' \in {"next", "previous"} /\ currentPage' # currentPage) =>
       persisted'.currentPage = currentPage']_vars

\* C36: once a full extensive reset has completed (the time-limit notice is
\* up) nothing the same reader session does writes a page total of before
\* the reset back to the store: until the book is opened again, a stored
\* page total is at most what the stopwatch has counted since the reset.
C36_NoPreResetTotals ==
  (mounted /\ timeLimitVisible) =>
    \A p \in Pages :
      persisted.pageTimers[p].present =>
        persisted.pageTimers[p].totalTime <= Timer(Cur, p)

\* C37: at most one upload batch runs at a time: a Submit pressed while an
\* earlier one is in progress, its checkpoint still on the way to the store
\* included, begins no second batch next to the first, and no segment is
\* uploaded twice.
C37_OneBatchAtATime ==
  /\ ~(overlap.running /\ flow \in {"submit", "complete"})
  /\ \A i, j \in 1..Len(uploadLog) : uploadLog[i] = uploadLog[j] => i = j

\* C38: opening a book from the list creates the fresh record (page 1, not
\* submitted, not completed) only where the store holds none for (user,
\* book); a record that exists is left as it is, also when the book is tapped
\* before the progress list has been loaded.
C38_OpeningKeepsTheRecord ==
  [][listOp' = "bookPress" =>
       persisted' = IF persisted.present THEN persisted
                    ELSE startReadingWithBook]_vars

\* C39: in one quiz run completeQuiz runs at most once, and a 1200 ms
\* callback moves the question index by one question at most, also when
\* options are tapped again while the congratulation is shown.
C39_CompletesOnceNeverSkips ==
  /\ [](Len(completions) <= 1)
  /\ [][quizOp' = "advance" =>
          currentQuestionIndex' - currentQuestionIndex \in {0, 1}]_vars

\* C40: the quiz result in the store has 0 <= score <= totalQuestions,
\* whatever options were tapped (correct, incorrect, repeated).
C40_ScoreWithinTotal ==
  quizResult.present =>
    (0 <= quizResult.score /\ quizResult.score <= quizResult.totalQuestions)

====
